---------------------------- MODULE Spec2Model ----------------------------
(***************************************************************************)
(* Model of the ParlayX USSD transport of vumi                             *)
(* (vumi/transports/parlayx_ussd): the outbound path                       *)
(* ParlayXUSSDTransport.handle_outbound_message with its errback           *)
(* handle_outbound_message_failure, and the inbound path                   *)
(* ParlayXUSSDTransport.handle_raw_inbound_message over the session store. *)
(*                                                                         *)
(* Handlers are Twisted callbacks: a handler runs without interruption up  *)
(* to a point where it waits on a Deferred (the carrier's HTTP response, a *)
(* publish on the message bus, a session-store operation).  Each action    *)
(* below is one such uninterrupted run; pc holds where a handling waits.   *)
(***************************************************************************)
EXTENDS Integers, Sequences, FiniteSets, TLC

(***************************************************************************)
(* Bounds of the model.                                                    *)
(***************************************************************************)
\* number of outbound messages dispatched to the transport
MaxMsgs == 2

\* number of inbound notifications handled
MaxReqs == 2

\* number of inbound messages after which a carrier that sends its
\* notifications one at a time sends no further notification
MaxInbound == 3

\* number of calls made on the client's methods
MaxCalls == 3

\* number of times the clock advances
MaxClock == 2

\* number of delayed calls the reconnecting service schedules
MaxTimers == 3

\* number of requests the MTECH transport receives
MaxMtech == 3

(***************************************************************************)
(* Values.                                                                 *)
(***************************************************************************)
\* Python's None
None == "None"

\* fault codes a SOAP fault may carry (faultcode of the carrier's fault)
FaultCodes == {"soapenv:Client", "soapenv:Server", "soapenv:Servers"}

\* exception types the send call may fail with
SoapFaultTypes == {"ServiceException", "PolicyException", "SoapFault"}
OtherErrorTypes == {"ValueError", "TimeoutError"}

\* the failures the deferred of send_ussd may fire with
SoapFailures == [type : SoapFaultTypes, code : FaultCodes, message : {"failed"}]
OtherFailures == [type : OtherErrorTypes, code : {None}, message : {"failed"}]
SendFailures == SoapFailures \cup OtherFailures

\* the request identifiers _extractRequestIdentifier may return
\* ('' when the response has no result element)
RequestIdentifiers == {"request_message_id", ""}

\* the body of the carrier's response to sendUssd, by the texts of its result
\* elements: one result element, or none
ResultBody == <<"request_message_id">>
NoResultBody == <<>>
ResponseBodies == {ResultBody, NoResultBody}

\* _extractRequestIdentifier without the default of gettext
ExtractRequestIdentifier_NoDefault(body) ==
    IF Len(body) = 0 THEN None ELSE Head(body)

\* _extractRequestIdentifier((body, header)):
\* gettext(body, './/' + str(SEND_NS.result), default='')
ExtractRequestIdentifier(body) ==
    IF Len(body) = 0 THEN "" ELSE Head(body)

\* send_ussd succeeds with what _extractRequestIdentifier returns
SendSuccesses ==
    {[type |-> "value", value |-> ExtractRequestIdentifier(body)] :
        body \in ResponseBodies}

SendOutcomes == SendSuccesses \cup SendFailures

\* session events of an outbound message
OutboundSessionEvents == {None, "resume", "close"}

\* the session events an application can put on an outbound message
AppSessionEvents == OutboundSessionEvents \cup {"new"}

\* transport_metadata['parlayx_ussd'] of an outbound message: absent, or the
\* 8 fields of the USSDMessage the session started with
NoMeta == <<>>
SomeMeta == <<"0", "123456", "123456", "1", "27117654321", "909", "15", "*909#">>
Metas == {NoMeta, SomeMeta}

\* transport_metadata.get('linkid') of an outbound message: None when the
\* metadata holds no linkid
MetaLinkids == {None, "linkid"}

\* session identifiers: the senderCB of a notification
SessionIds == {"s1", "s2"}

\* msgType of a notification; None when the element is missing
MsgTypes == {"0", "1", "2", None}

\* serviceCode and ussdString of a notification
ServiceCodes == {"909", "123"}
UssdStrings == {"*909*100#", "1"}

\* the parsed USSDMessage handed to handle_raw_inbound_message
USSDMessages ==
    [msgType : MsgTypes, senderCB : SessionIds, msisdn : {"27117654321"},
     serviceCode : ServiceCodes, ussdString : UssdStrings]

(***************************************************************************)
(* State.                                                                  *)
(***************************************************************************)
VARIABLES
    \* outbound path
    pc,         \* per outbound message id: where its handling stands
    message,    \* per outbound message id: the message handed to the handler
    calls,      \* the send_ussd calls made on the client, in order
    outcome,    \* per outbound message id: what the send_ussd Deferred fired
                \* with (a value, or the Failure f given to the errback)
    events,     \* the acknowledgement events published, in order
    result,     \* per outbound message id: final result of the Deferred d
    \* inbound path
    rpc,        \* per notification: where its handling stands
    request,    \* per notification: the USSDMessage being handled
    sessions,   \* the session store: per session id, its stored fields
    expires,    \* the session store: per session id, how many times the
                \* time to live of its record was started
    inbound,    \* the inbound messages published, in order
    rresult,    \* per notification: how handle_raw_inbound_message ended
    \* HTTP side of the inbound path
    post,       \* per notification: the content of the POST it arrived in
    response,   \* per notification: what was written on the HTTP request
    callbacks,  \* the calls of callback_message_received made, in order
    lost,       \* per notification: the connection of its request was lost
    \* the ParlayX client and the life cycle of the transport
    clock,      \* the current date and time, as datetime.now() returns it
    reads,      \* how many times the client has read the clock (_now())
    correlator, \* _service_correlator of the client
    invoked,    \* the calls of the client's methods, in order
    requests,   \* the SOAP requests handed to perform_soap_request, in order
    tpc,        \* where the transport stands in its life cycle
    start_notifications,    \* the start_notifications setting
    \* ReconnectingClientService
    continueTrying,         \* 1 while the service is to reconnect, else 0
    retries,                \* attempts counted since the last resetDelay
    delay,                  \* the delay of the last scheduled attempt
    maxRetries,             \* NoLimit, or the limit set on the instance
    timers,                 \* the delayed calls made on the clock, by state
    delayedRetryDeferred,   \* NoCall, or the delayed call the service holds
    connects,               \* the connects made on the endpoint, by state
    connectingDeferred,     \* NoCall, or the connect the service holds
    trace,                  \* what the last step called, in order
    inARow,                 \* attempts scheduled since the last connection
    running,                \* startService was called last, not stopService
    \* MtechUssdTransport
    msessions,  \* the session store: per session id, its stored fields
    mlog        \* saves, publications and responses made, in order

varsOut == <<pc, message, calls, outcome, events, result>>
varsIn == <<rpc, request, sessions, expires, inbound, rresult>>
varsHttp == <<post, response, callbacks, lost>>
varsClient == <<clock, reads, correlator, invoked, requests, tpc,
                start_notifications>>
varsRc == <<continueTrying, retries, delay, maxRetries, timers,
           delayedRetryDeferred, connects, connectingDeferred, trace, inARow,
           running>>
varsMtech == <<msessions, mlog>>
vars == <<varsOut, varsIn, varsHttp, varsClient, varsRc, varsMtech>>

MsgIds == 1..MaxMsgs
ReqIds == 1..MaxReqs

(***************************************************************************)
(* twisted.python.failure.Failure                                          *)
(***************************************************************************)
\* Failure.check(*errorTypes): ServiceException and PolicyException are
\* subclasses of SoapFault
IsInstance(f, t) ==
    \/ f.type = t
    \/ t = "SoapFault" /\ f.type \in SoapFaultTypes

Check(f, types) == \E t \in types : IsInstance(f, t)

\* Failure.getErrorMessage(): str() of the exception
GetErrorMessage(f) == f.message

\* EndsWith with the test written as equality with the suffix
EndsWith_Equals(s, suffix) == s = suffix

\* EndsWith with the test written as "suffix in s"
EndsWith_Contains(s, suffix) ==
    \E i \in 1..Len(s) :
        /\ i + Len(suffix) - 1 <= Len(s)
        /\ SubSeq(s, i, i + Len(suffix) - 1) = suffix

\* str.endswith
EndsWith(s, suffix) ==
    /\ Len(s) >= Len(suffix)
    /\ SubSeq(s, Len(s) - Len(suffix) + 1, Len(s)) = suffix

\* a Deferred's current result is a Failure (the errback chain is taken)
FailureTypes == SoapFaultTypes \cup OtherErrorTypes \cup
                {"TemporaryFailure", "PermanentFailure", "KeyError"}
IsFailure(r) == r.type \in FailureTypes

NoResult == [type |-> "pending"]
NoOutcome == [type |-> "none"]
NoMessage == [session_event |-> None, meta |-> NoMeta, linkid |-> None]
NoRequest == [msgType |-> None]

\* an empty dict: what the session store holds and returns for an id
\* without a record
EmptyDict == [k \in {} |-> None]

\* None where the service holds a limit or a call: maxRetries = None stands
\* for no limit, and the delayed call and the connect the service holds are
\* given by their place in timers and connects, None being no place
NoLimit == -1
NoCall == 0

\* ReconnectingClientService.initialDelay and maxDelay, in seconds
initialDelay == 1
maxDelay == 3600

\* the values uuid.uuid4().hex may give the client as _service_correlator
Correlators == {"correlator_a", "correlator_b"}

\* no POST received; nothing written on the request and finish() not called
NoPost == [kind |-> None]
NoResponse == [written |-> 0, finished |-> 0]

(***************************************************************************)
(* Init                                                                    *)
(***************************************************************************)
\* the state of a transport configured with the start_notifications setting
\* and not yet set up: no client exists
InitWith(setting) ==
    /\ pc = [m \in MsgIds |-> "idle"]
    /\ message = [m \in MsgIds |-> NoMessage]
    /\ calls = <<>>
    /\ outcome = [m \in MsgIds |-> NoOutcome]
    /\ events = <<>>
    /\ result = [m \in MsgIds |-> NoResult]
    /\ rpc = [r \in ReqIds |-> "idle"]
    /\ request = [r \in ReqIds |-> NoRequest]
    /\ sessions = [s \in SessionIds |-> EmptyDict]
    /\ expires = [s \in SessionIds |-> 0]
    /\ inbound = <<>>
    /\ rresult = [r \in ReqIds |-> NoResult]
    /\ post = [r \in ReqIds |-> NoPost]
    /\ response = [r \in ReqIds |-> NoResponse]
    /\ callbacks = <<>>
    /\ lost = [r \in ReqIds |-> FALSE]
    /\ clock = 0
    /\ reads = 0
    /\ correlator = None
    /\ invoked = <<>>
    /\ requests = <<>>
    /\ tpc = "created"
    /\ start_notifications = setting
    /\ continueTrying = 1
    /\ retries = 0
    /\ delay = initialDelay
    /\ maxRetries = NoLimit
    /\ timers = <<>>
    /\ delayedRetryDeferred = NoCall
    /\ connects = <<>>
    /\ connectingDeferred = NoCall
    /\ trace = <<>>
    /\ inARow = 0
    /\ running = FALSE
    /\ msessions = [s \in SessionIds |-> EmptyDict]
    /\ mlog = <<>>

\* the transport as the tests configure it: start_notifications is not set
Init == InitWith(FALSE)

(***************************************************************************)
(* ParlayXUSSDTransport.handle_outbound_message                            *)
(***************************************************************************)
\* msgType that echoes the kind of the session event
OutboundMsgType_Echo(session_event) ==
    IF session_event = "close" THEN "2"
    ELSE IF session_event = "new" THEN "0" ELSE "1"

\* msgType and ussdOpType sent for a session event
OutboundMsgType(session_event) ==
    IF session_event = "close" THEN "2" ELSE "1"

OutboundUssdOpType(session_event) ==
    IF session_event = "close" THEN "3" ELSE "1"

\* message ids are fresh per message: id m is dispatched after ids 1..m-1
HandleOutboundMessage(m, session_event, meta, linkid) ==
    /\ pc[m] = "idle"
    /\ \A k \in MsgIds : k < m => pc[k] # "idle"
    /\ message' = [message EXCEPT ![m] =
                      [session_event |-> session_event, meta |-> meta,
                       linkid |-> linkid]]
    /\ IF meta = NoMeta
       THEN \* parlayx_ussd[1] on the default {} raises KeyError before the
            \* send call is made
            /\ pc' = [pc EXCEPT ![m] = "done"]
            /\ result' = [result EXCEPT ![m] = [type |-> "KeyError"]]
            /\ UNCHANGED calls
       ELSE /\ calls' = Append(calls,
                   [message_id |-> m,
                    msgType |-> OutboundMsgType(session_event),
                    senderCB |-> meta[2],
                    ussdOpType |-> OutboundUssdOpType(session_event),
                    serviceCode |-> meta[6],
                    codeScheme |-> meta[7],
                    linkid |-> None])
            /\ pc' = [pc EXCEPT ![m] = "sending"]
            /\ UNCHANGED result
    /\ UNCHANGED <<outcome, events>>
    /\ UNCHANGED <<varsIn, varsHttp, varsClient, varsRc, varsMtech>>

\* AckEvent published without the request identifier
AckEvent_NoIdentifier(m, requestIdentifier) ==
    [event_type |-> "ack", user_message_id |-> m,
     sent_message_id |-> None, nack_reason |-> None]

\* publish_ack(user_message_id, sent_message_id)
AckEvent(m, requestIdentifier) ==
    [event_type |-> "ack", user_message_id |-> m,
     sent_message_id |-> requestIdentifier, nack_reason |-> None]

\* publish_nack(user_message_id, reason)
NackEvent(m, reason) ==
    [event_type |-> "nack", user_message_id |-> m,
     sent_message_id |-> None, nack_reason |-> reason]

\* RaisesTemporary without the suffix test on the fault code
RaisesTemporary_AnySoapFault(f) ==
    /\ ~Check(f, {"ServiceException", "PolicyException"})
    /\ Check(f, {"SoapFault"})

\* RaisesTemporary without the exclusion of the domain faults
RaisesTemporary_NoDomainCheck(f) ==
    /\ Check(f, {"SoapFault"})
    /\ EndsWith(f.code, "Server")

\* RaisesTemporary that also treats a timeout as a temporary failure
RaisesTemporary_Timeout(f) ==
    \/ f.type = "TimeoutError"
    \/ /\ ~Check(f, {"ServiceException", "PolicyException"})
       /\ Check(f, {"SoapFault"})
       /\ EndsWith(f.code, "Server")

\* the test of handle_outbound_message_failure that raises TemporaryFailure
RaisesTemporary(f) ==
    /\ ~Check(f, {"ServiceException", "PolicyException"})
    /\ Check(f, {"SoapFault"})
    /\ EndsWith(f.code, "Server")

\* RaisedBeforeNack that classifies every SOAP fault before the nack
RaisedBeforeNack_ClassifyFirst(f) ==
    IF RaisesTemporary(f)
    THEN [type |-> "TemporaryFailure", failure |-> f]
    ELSE IF Check(f, {"SoapFault"})
         THEN [type |-> "PermanentFailure", failure |-> f]
         ELSE NoResult

\* handle_outbound_message_failure up to its yield: the failure raised
\* before publish_nack is called, NoResult when the nack is published
RaisedBeforeNack(f) ==
    IF RaisesTemporary(f)
    THEN [type |-> "TemporaryFailure", failure |-> f]
    ELSE NoResult

\* AfterNack that swallows a failure that is no SOAP fault and returns its
\* message as a value
AfterNack_Swallow(f) ==
    IF Check(f, {"SoapFault"})
    THEN [type |-> "PermanentFailure", failure |-> f]
    ELSE [type |-> "value", value |-> GetErrorMessage(f)]

\* AfterNack that raises PermanentFailure for every failure
AfterNack_AlwaysPermanent(f) ==
    [type |-> "PermanentFailure", failure |-> f]

\* handle_outbound_message_failure after publish_nack has completed: the
\* result the errback leaves on the Deferred
AfterNack(f) ==
    IF Check(f, {"SoapFault"})
    THEN [type |-> "PermanentFailure", failure |-> f]
    ELSE f

\* The Deferred of send_ussd fires with outcome o; the chain of d runs:
\* the errback handle_outbound_message_failure on a failure, then the
\* callback publishing the ack on a value.
SendUssdFires(m, o) ==
    /\ pc[m] = "sending"
    /\ outcome' = [outcome EXCEPT ![m] = o]
    /\ IF IsFailure(o)
       THEN IF RaisedBeforeNack(o) # NoResult
            THEN /\ result' = [result EXCEPT ![m] = RaisedBeforeNack(o)]
                 /\ pc' = [pc EXCEPT ![m] = "done"]
                 /\ UNCHANGED events
            ELSE /\ events' = Append(events, NackEvent(m, GetErrorMessage(o)))
                 /\ pc' = [pc EXCEPT ![m] = "nack_wait"]
                 /\ UNCHANGED result
       ELSE /\ events' = Append(events, AckEvent(m, o.value))
            /\ pc' = [pc EXCEPT ![m] = "ack_wait"]
            /\ UNCHANGED result
    /\ UNCHANGED <<message, calls>>
    /\ UNCHANGED <<varsIn, varsHttp, varsClient, varsRc, varsMtech>>

\* publish_nack has completed: the errback finishes, and the ack callback
\* runs only if the errback left a value on the Deferred
PublishNackDone(m) ==
    /\ pc[m] = "nack_wait"
    /\ LET r == AfterNack(outcome[m]) IN
       IF IsFailure(r)
       THEN /\ result' = [result EXCEPT ![m] = r]
            /\ pc' = [pc EXCEPT ![m] = "done"]
            /\ UNCHANGED events
       ELSE /\ events' = Append(events, AckEvent(m, r.value))
            /\ pc' = [pc EXCEPT ![m] = "ack_wait"]
            /\ UNCHANGED result
    /\ UNCHANGED <<message, calls, outcome>>
    /\ UNCHANGED <<varsIn, varsHttp, varsClient, varsRc, varsMtech>>

\* publish_ack has completed: d ends with the published event as its value
PublishAckDone(m) ==
    /\ pc[m] = "ack_wait"
    /\ result' = [result EXCEPT ![m] = [type |-> "value"]]
    /\ pc' = [pc EXCEPT ![m] = "done"]
    /\ UNCHANGED <<message, calls, outcome, events>>
    /\ UNCHANGED <<varsIn, varsHttp, varsClient, varsRc, varsMtech>>

NextOutbound ==
    \/ \E m \in MsgIds, se \in OutboundSessionEvents, meta \in Metas :
          HandleOutboundMessage(m, se, meta, None)
    \/ \E m \in MsgIds, o \in SendOutcomes : SendUssdFires(m, o)
    \/ \E m \in MsgIds : PublishNackDone(m)
    \/ \E m \in MsgIds : PublishAckDone(m)

SpecOutbound == Init /\ [][NextOutbound]_vars

\* the outcomes of the send call by kind: a request identifier, none, a
\* fault of the carrier, an error that is no fault
LinkidOutcomes ==
    SendSuccesses \cup
    {f \in SendFailures :
        \/ f.type = "ValueError"
        \/ f.type = "SoapFault" /\ f.code = "soapenv:Client"}

\* The outbound path for messages with and without a linkid in their
\* transport metadata.
NextOutboundLinkid ==
    \/ \E m \in MsgIds, se \in AppSessionEvents, meta \in Metas,
          linkid \in MetaLinkids :
          HandleOutboundMessage(m, se, meta, linkid)
    \/ \E m \in MsgIds, o \in LinkidOutcomes : SendUssdFires(m, o)
    \/ \E m \in MsgIds : PublishNackDone(m)
    \/ \E m \in MsgIds : PublishAckDone(m)

SpecOutboundLinkid == Init /\ [][NextOutboundLinkid]_vars

(***************************************************************************)
(* The session store (vumi.components.session.SessionManager over Redis).  *)
(***************************************************************************)
\* create_session(session_id, **fields): the record written for the id
CreateSession(store, session_id, fields) ==
    [store EXCEPT ![session_id] = fields]

\* create_session starts the time to live of the record it has written;
\* no other operation of the store touches it
Expire(exp, session_id) == [exp EXCEPT ![session_id] = @ + 1]

\* load_session(session_id): the stored fields, an empty dict when the id
\* has no record
LoadSession(store, session_id) == store[session_id]

\* the record of session_id has reached its expiry
ExpireSession(session_id) ==
    /\ sessions[session_id] # EmptyDict
    /\ sessions' = [sessions EXCEPT ![session_id] = EmptyDict]
    /\ UNCHANGED <<rpc, request, expires, inbound, rresult>>
    /\ UNCHANGED <<varsOut, varsHttp, varsClient, varsRc, varsMtech>>

(***************************************************************************)
(* ParlayXUSSDTransport.handle_raw_inbound_message                         *)
(***************************************************************************)
\* TransportUserMessage.SESSION_NEW, SESSION_RESUME, SESSION_CLOSE
SESSION_NEW == "new"
SESSION_RESUME == "resume"
SESSION_CLOSE == "close"

\* determine_session_event that takes only '2' for a close
determine_session_event_OnlyTwoCloses(msg_type) ==
    IF msg_type = "0" THEN SESSION_NEW
    ELSE IF msg_type = "2" THEN SESSION_CLOSE
    ELSE SESSION_RESUME

\* determine_session_event(msg_type)
determine_session_event(msg_type) ==
    IF msg_type = "0" THEN SESSION_NEW
    ELSE IF msg_type = "1" THEN SESSION_RESUME
    ELSE SESSION_CLOSE

\* NewContent that keeps the text the carrier sent
NewContent_UssdString(inbound_message) == inbound_message.ussdString

\* the content published for a NEW notification
NewContent(inbound_message) == None

\* the to_addr of a NEW notification, also stored as ussd_code
NewToAddr(inbound_message) == inbound_message.serviceCode

\* InboundEvent that takes to_addr from the notification's serviceCode
InboundEvent_ToAddrFromMessage(r, inbound_message, content, to_addr) ==
    [req |-> r,
     content |-> content,
     to_addr |-> inbound_message.serviceCode,
     from_addr |-> inbound_message.msisdn,
     session_event |-> determine_session_event(inbound_message.msgType),
     transport_metadata |-> inbound_message]

\* publish_message(content=..., to_addr=..., from_addr=..., ...); r is the
\* notification the message was published for
InboundEvent(r, inbound_message, content, to_addr) ==
    [req |-> r,
     content |-> content,
     to_addr |-> to_addr,
     from_addr |-> inbound_message.msisdn,
     session_event |-> determine_session_event(inbound_message.msgType),
     transport_metadata |-> inbound_message]

\* the handler is called with the senderCB of the message as session_id and
\* runs up to its wait on create_session or load_session
HandleRawInboundMessage(r, inbound_message) ==
    /\ rpc[r] = "idle"
    /\ \A k \in ReqIds : k < r => rpc[k] # "idle"
    /\ request' = [request EXCEPT ![r] = inbound_message]
    /\ rpc' = [rpc EXCEPT ![r] =
          IF determine_session_event(inbound_message.msgType) = SESSION_NEW
          THEN "create_session" ELSE "load_session"]
    /\ UNCHANGED <<sessions, expires, inbound, rresult>>
    /\ UNCHANGED <<varsOut, varsClient, varsRc, varsMtech>>

\* CreateSessionDone that publishes the message also when create_session
\* failed
CreateSessionDone_PublishAnyway(r, ok) ==
    /\ rpc[r] = "create_session"
    /\ LET msg == request[r]
           to_addr == NewToAddr(msg)
       IN /\ inbound' = Append(inbound,
                InboundEvent(r, msg, NewContent(msg), to_addr))
          /\ IF ok
             THEN /\ sessions' = CreateSession(sessions, msg.senderCB,
                                               [ussd_code |-> to_addr])
                  /\ expires' = Expire(expires, msg.senderCB)
                  /\ rpc' = [rpc EXCEPT ![r] = "publishing"]
                  /\ UNCHANGED rresult
             ELSE /\ rresult' = [rresult EXCEPT ![r] =
                                    [type |-> "StoreError"]]
                  /\ rpc' = [rpc EXCEPT ![r] = "done"]
                  /\ UNCHANGED <<sessions, expires>>
    /\ UNCHANGED request
    /\ UNCHANGED <<varsOut, varsClient, varsRc, varsMtech>>

\* CreateSessionDone that keeps one record for all sessions
CreateSessionDone_OneKey(r, ok) ==
    /\ rpc[r] = "create_session"
    /\ LET msg == request[r]
           to_addr == NewToAddr(msg)
       IN IF ok
          THEN /\ sessions' = CreateSession(sessions, "s1",
                                            [ussd_code |-> to_addr])
               /\ expires' = Expire(expires, "s1")
               /\ inbound' = Append(inbound,
                     InboundEvent(r, msg, NewContent(msg), to_addr))
               /\ rpc' = [rpc EXCEPT ![r] = "publishing"]
               /\ UNCHANGED rresult
          ELSE /\ rresult' = [rresult EXCEPT ![r] = [type |-> "StoreError"]]
               /\ rpc' = [rpc EXCEPT ![r] = "done"]
               /\ UNCHANGED <<sessions, expires, inbound>>
    /\ UNCHANGED request
    /\ UNCHANGED <<varsOut, varsClient, varsRc, varsMtech>>

\* create_session completes (ok) or fails (~ok); on completion the handler
\* calls publish_message
CreateSessionDone(r, ok) ==
    /\ rpc[r] = "create_session"
    /\ LET msg == request[r]
           to_addr == NewToAddr(msg)
       IN IF ok
          THEN /\ sessions' = CreateSession(sessions, msg.senderCB,
                                            [ussd_code |-> to_addr])
               /\ expires' = Expire(expires, msg.senderCB)
               /\ inbound' = Append(inbound,
                     InboundEvent(r, msg, NewContent(msg), to_addr))
               /\ rpc' = [rpc EXCEPT ![r] = "publishing"]
               /\ UNCHANGED rresult
          ELSE /\ rresult' = [rresult EXCEPT ![r] = [type |-> "StoreError"]]
               /\ rpc' = [rpc EXCEPT ![r] = "done"]
               /\ UNCHANGED <<sessions, expires, inbound>>
    /\ UNCHANGED request
    /\ UNCHANGED <<varsOut, varsClient, varsRc, varsMtech>>

\* LoadSessionDone that deletes the record of the session on CLOSE
LoadSessionDone_CloseDeletes(r, ok) ==
    /\ rpc[r] = "load_session"
    /\ LET msg == request[r]
           session == LoadSession(sessions, msg.senderCB)
       IN IF ~ok
          THEN /\ rresult' = [rresult EXCEPT ![r] = [type |-> "StoreError"]]
               /\ rpc' = [rpc EXCEPT ![r] = "done"]
               /\ UNCHANGED <<inbound, sessions, expires>>
          ELSE IF "ussd_code" \notin DOMAIN session
          THEN /\ rresult' = [rresult EXCEPT ![r] = [type |-> "KeyError"]]
               /\ rpc' = [rpc EXCEPT ![r] = "done"]
               /\ UNCHANGED <<inbound, sessions, expires>>
          ELSE /\ inbound' = Append(inbound,
                     InboundEvent(r, msg, msg.ussdString, session.ussd_code))
               /\ sessions' =
                     IF determine_session_event(msg.msgType) = SESSION_CLOSE
                     THEN [sessions EXCEPT ![msg.senderCB] = EmptyDict]
                     ELSE sessions
               /\ UNCHANGED expires
               /\ rpc' = [rpc EXCEPT ![r] = "publishing"]
               /\ UNCHANGED rresult
    /\ UNCHANGED request
    /\ UNCHANGED <<varsOut, varsClient, varsRc, varsMtech>>

\* LoadSessionDone that makes up a record from the notification when the
\* session id has none
LoadSessionDone_Fabricate(r, ok) ==
    /\ rpc[r] = "load_session"
    /\ LET msg == request[r]
           session == LoadSession(sessions, msg.senderCB)
           to_addr == IF "ussd_code" \in DOMAIN session
                      THEN session.ussd_code ELSE msg.serviceCode
       IN IF ~ok
          THEN /\ rresult' = [rresult EXCEPT ![r] = [type |-> "StoreError"]]
               /\ rpc' = [rpc EXCEPT ![r] = "done"]
               /\ UNCHANGED <<inbound, sessions, expires>>
          ELSE /\ inbound' = Append(inbound,
                     InboundEvent(r, msg, msg.ussdString, to_addr))
               /\ sessions' = CreateSession(sessions, msg.senderCB,
                                            [ussd_code |-> to_addr])
               /\ expires' = Expire(expires, msg.senderCB)
               /\ rpc' = [rpc EXCEPT ![r] = "publishing"]
               /\ UNCHANGED rresult
    /\ UNCHANGED request
    /\ UNCHANGED <<varsOut, varsClient, varsRc, varsMtech>>

\* LoadSessionDone that reads the code with session.get('ussd_code')
LoadSessionDone_Get(r, ok) ==
    /\ rpc[r] = "load_session"
    /\ LET msg == request[r]
           session == LoadSession(sessions, msg.senderCB)
           to_addr == IF "ussd_code" \in DOMAIN session
                      THEN session.ussd_code ELSE None
       IN IF ~ok
          THEN /\ rresult' = [rresult EXCEPT ![r] = [type |-> "StoreError"]]
               /\ rpc' = [rpc EXCEPT ![r] = "done"]
               /\ UNCHANGED inbound
          ELSE /\ inbound' = Append(inbound,
                     InboundEvent(r, msg, msg.ussdString, to_addr))
               /\ rpc' = [rpc EXCEPT ![r] = "publishing"]
               /\ UNCHANGED rresult
    /\ UNCHANGED <<request, sessions, expires>>
    /\ UNCHANGED <<varsOut, varsClient, varsRc, varsMtech>>

\* LoadSessionDone that saves the record again, which starts its time to
\* live anew
LoadSessionDone_Renew(r, ok) ==
    /\ rpc[r] = "load_session"
    /\ LET msg == request[r]
           session == LoadSession(sessions, msg.senderCB)
       IN IF ~ok
          THEN /\ rresult' = [rresult EXCEPT ![r] = [type |-> "StoreError"]]
               /\ rpc' = [rpc EXCEPT ![r] = "done"]
               /\ UNCHANGED <<inbound, sessions, expires>>
          ELSE IF "ussd_code" \notin DOMAIN session
          THEN /\ rresult' = [rresult EXCEPT ![r] = [type |-> "KeyError"]]
               /\ rpc' = [rpc EXCEPT ![r] = "done"]
               /\ UNCHANGED <<inbound, sessions, expires>>
          ELSE /\ inbound' = Append(inbound,
                     InboundEvent(r, msg, msg.ussdString, session.ussd_code))
               /\ sessions' = CreateSession(sessions, msg.senderCB, session)
               /\ expires' = Expire(expires, msg.senderCB)
               /\ rpc' = [rpc EXCEPT ![r] = "publishing"]
               /\ UNCHANGED rresult
    /\ UNCHANGED request
    /\ UNCHANGED <<varsOut, varsClient, varsRc, varsMtech>>

\* load_session completes (ok) or fails (~ok); session['ussd_code'] raises
\* KeyError on an empty dict, otherwise the handler calls publish_message
LoadSessionDone(r, ok) ==
    /\ rpc[r] = "load_session"
    /\ LET msg == request[r]
           session == LoadSession(sessions, msg.senderCB)
       IN IF ~ok
          THEN /\ rresult' = [rresult EXCEPT ![r] = [type |-> "StoreError"]]
               /\ rpc' = [rpc EXCEPT ![r] = "done"]
               /\ UNCHANGED inbound
          ELSE IF "ussd_code" \notin DOMAIN session
          THEN /\ rresult' = [rresult EXCEPT ![r] = [type |-> "KeyError"]]
               /\ rpc' = [rpc EXCEPT ![r] = "done"]
               /\ UNCHANGED inbound
          ELSE /\ inbound' = Append(inbound,
                     InboundEvent(r, msg, msg.ussdString, session.ussd_code))
               /\ rpc' = [rpc EXCEPT ![r] = "publishing"]
               /\ UNCHANGED rresult
    /\ UNCHANGED <<request, sessions, expires>>
    /\ UNCHANGED <<varsOut, varsClient, varsRc, varsMtech>>

\* publish_message has completed: the handler returns
PublishMessageDone(r) ==
    /\ rpc[r] = "publishing"
    /\ rpc' = [rpc EXCEPT ![r] = "done"]
    /\ rresult' = [rresult EXCEPT ![r] = [type |-> "value"]]
    /\ UNCHANGED <<request, sessions, expires, inbound>>
    /\ UNCHANGED <<varsOut, varsClient, varsRc, varsMtech>>

NextInbound ==
    \/ \E r \in ReqIds, msg \in USSDMessages :
          HandleRawInboundMessage(r, msg) /\ UNCHANGED varsHttp
    \/ \E r \in ReqIds, ok \in BOOLEAN :
          CreateSessionDone(r, ok) /\ UNCHANGED varsHttp
    \/ \E r \in ReqIds, ok \in BOOLEAN :
          LoadSessionDone(r, ok) /\ UNCHANGED varsHttp
    \/ \E r \in ReqIds : PublishMessageDone(r) /\ UNCHANGED varsHttp
    \/ \E s \in SessionIds : ExpireSession(s)

SpecInbound == Init /\ [][NextInbound]_vars

\* no notification is being handled
Quiescent == \A k \in ReqIds : rpc[k] \in {"idle", "done"}

\* the handling of notification r has ended and left nothing behind: the
\* next notification may take its place
ForgetRequest(r) ==
    /\ rpc[r] = "done"
    /\ rpc' = [rpc EXCEPT ![r] = "idle"]
    /\ request' = [request EXCEPT ![r] = NoRequest]
    /\ rresult' = [rresult EXCEPT ![r] = NoResult]
    /\ UNCHANGED <<sessions, expires, inbound>>
    /\ UNCHANGED <<varsOut, varsHttp, varsClient, varsRc, varsMtech>>

\* the notifications of a carrier that sends them one at a time
SeqMessages ==
    {msg \in USSDMessages : msg.ussdString = "1"}

\* The carrier does not pipeline: a notification arrives only when the
\* handling of the one before it has ended and been forgotten, so that one
\* handling is in progress at a time.
NextInboundSeq ==
    \/ \E msg \in SeqMessages :
          /\ Quiescent
          /\ Len(inbound) < MaxInbound
          /\ HandleRawInboundMessage(1, msg)
          /\ UNCHANGED varsHttp
    \/ \E r \in ReqIds, ok \in BOOLEAN :
          CreateSessionDone(r, ok) /\ UNCHANGED varsHttp
    \/ \E r \in ReqIds, ok \in BOOLEAN :
          LoadSessionDone(r, ok) /\ UNCHANGED varsHttp
    \/ \E r \in ReqIds : PublishMessageDone(r) /\ UNCHANGED varsHttp
    \/ \E r \in ReqIds : ForgetRequest(r)
    \/ \E s \in SessionIds : ExpireSession(s)

SpecInboundSeq == Init /\ [][NextInboundSeq]_vars

\* msgType values of every kind: the three of the protocol, a missing
\* element, an empty element and a number out of range
AllMsgTypes == MsgTypes \cup {"", "3"}

\* notifications of every msgType
TypeMessages ==
    {msg \in [msgType : AllMsgTypes, senderCB : SessionIds,
              msisdn : {"27117654321"}, serviceCode : ServiceCodes,
              ussdString : UssdStrings] :
        msg.ussdString = "1" /\ msg.serviceCode = "909"}

\* The inbound path for notifications of every msgType.
NextInboundTypes ==
    \/ \E r \in ReqIds, msg \in TypeMessages :
          HandleRawInboundMessage(r, msg) /\ UNCHANGED varsHttp
    \/ \E r \in ReqIds, ok \in BOOLEAN :
          CreateSessionDone(r, ok) /\ UNCHANGED varsHttp
    \/ \E r \in ReqIds, ok \in BOOLEAN :
          LoadSessionDone(r, ok) /\ UNCHANGED varsHttp
    \/ \E r \in ReqIds : PublishMessageDone(r) /\ UNCHANGED varsHttp
    \/ \E s \in SessionIds : ExpireSession(s)

SpecInboundTypes == Init /\ [][NextInboundTypes]_vars

\* The store writes a record one field at a time: create_session saves the
\* time of creation and the fields it was given, in either order, and a
\* load_session in between sees what has been written so far.
HSet(store, session_id, key, value) ==
    [store EXCEPT ![session_id] =
        [k \in DOMAIN @ \cup {key} |-> IF k = key THEN value ELSE @[k]]]

\* the fields create_session writes
SessionFields == {"created_at", "ussd_code"}

\* the value of a field of the record of a NEW notification
FieldValue(inbound_message, key) ==
    IF key = "ussd_code" THEN NewToAddr(inbound_message) ELSE "now"

\* create_session has written its first field, or has failed
SaveSessionField(r, key, ok) ==
    /\ rpc[r] = "create_session"
    /\ IF ok
       THEN /\ sessions' = HSet(sessions, request[r].senderCB, key,
                                FieldValue(request[r], key))
            /\ rpc' = [rpc EXCEPT ![r] = "saved_" \o key]
            /\ UNCHANGED rresult
       ELSE /\ rresult' = [rresult EXCEPT ![r] = [type |-> "StoreError"]]
            /\ rpc' = [rpc EXCEPT ![r] = "done"]
            /\ UNCHANGED sessions
    /\ UNCHANGED <<request, expires, inbound>>
    /\ UNCHANGED <<varsOut, varsClient, varsRc, varsMtech>>

\* create_session has written its other field and completes, and the handler
\* calls publish_message; or it has failed
SaveSessionRest(r, ok) ==
    /\ rpc[r] \in {"saved_" \o key : key \in SessionFields}
    /\ LET msg == request[r]
           key == CHOOSE k \in SessionFields : rpc[r] # "saved_" \o k
       IN IF ok
          THEN /\ sessions' = HSet(sessions, msg.senderCB, key,
                                   FieldValue(msg, key))
               /\ expires' = Expire(expires, msg.senderCB)
               /\ inbound' = Append(inbound,
                     InboundEvent(r, msg, NewContent(msg), NewToAddr(msg)))
               /\ rpc' = [rpc EXCEPT ![r] = "publishing"]
               /\ UNCHANGED rresult
          ELSE /\ rresult' = [rresult EXCEPT ![r] = [type |-> "StoreError"]]
               /\ rpc' = [rpc EXCEPT ![r] = "done"]
               /\ UNCHANGED <<sessions, expires, inbound>>
    /\ UNCHANGED request
    /\ UNCHANGED <<varsOut, varsClient, varsRc, varsMtech>>

\* NEW and RESUME notifications of one session
RaceMessages ==
    {msg \in USSDMessages :
        /\ msg.senderCB = "s1"
        /\ msg.msgType \in {"0", "1"}
        /\ msg.ussdString = "1"}

\* Notifications of one session handled at the same time, with the writes of
\* create_session and the read of load_session in every order.
NextRace ==
    \/ \E r \in ReqIds, msg \in RaceMessages :
          HandleRawInboundMessage(r, msg) /\ UNCHANGED varsHttp
    \/ \E r \in ReqIds, key \in SessionFields, ok \in BOOLEAN :
          SaveSessionField(r, key, ok) /\ UNCHANGED varsHttp
    \/ \E r \in ReqIds, ok \in BOOLEAN :
          SaveSessionRest(r, ok) /\ UNCHANGED varsHttp
    \/ \E r \in ReqIds, ok \in BOOLEAN :
          LoadSessionDone(r, ok) /\ UNCHANGED varsHttp
    \/ \E r \in ReqIds : PublishMessageDone(r) /\ UNCHANGED varsHttp
    \/ \E s \in SessionIds : ExpireSession(s)

SpecRace == Init /\ [][NextRace]_vars

(***************************************************************************)
(* USSDNotificationService: the web resource the carrier POSTs its         *)
(* notifications to.  render_POST runs up to the callback's first wait;    *)
(* the response is written by the callbacks chained on the Deferred of     *)
(* process, when that Deferred fires.                                      *)
(***************************************************************************)
\* twisted.web.http.OK and INTERNAL_SERVER_ERROR
OK == 200
INTERNAL_SERVER_ERROR == 500

\* the SOAP header of a request, by the linkid it carries: None for a
\* request without a header or with a header without linkid
Headers == {None, "linkid"}

\* child elements of a SOAP body: notifyUssdReception elements with the text
\* of their sub-elements, and an element of another name
NotifyElements ==
    [name : {"notifyUssdReception"}, msgType : {"0", "1", "2"},
     senderCB : SessionIds, msIsdn : {"27117654321"},
     serviceCode : {"909"}, ussdString : {"1"}]
UnknownElements == [name : {"WhatIsThis"}]

\* SOAP bodies: no child, one child, two children
Bodies ==
    {<<>>} \cup
    {<<e>> : e \in NotifyElements \cup UnknownElements} \cup
    {<<u, e>> : u \in UnknownElements,
                e \in {n \in NotifyElements : n.senderCB = "s1"}} \cup
    {<<e, u>> : u \in UnknownElements,
                e \in {n \in NotifyElements :
                          n.senderCB = "s1" /\ n.msgType = "0"}}

\* request.content: text that is not XML ('sup'), a document that is not a
\* SOAP envelope (<hello/>), a SOAP envelope
Contents ==
    {[kind |-> "invalid"], [kind |-> "document"]} \cup
    [kind : {"envelope"}, header : Headers, body : Bodies]

\* SoapFault(code, string)
SoapFault(code, string) ==
    [type |-> "SoapFault", code |-> code, message |-> string]

\* parse_document(request.content) raises ParseError on text that is not XML
ParseError == [type |-> "ParseError", code |-> None, message |-> "syntax error"]

\* unwrap_soap_envelope(tree) raises on a document that is not an envelope
MalformedSoapRequest == SoapFault("soapenv:Client", "Malformed SOAP request")

\* normalize_address(address) as applied to the msIsdn of a notification
normalize_address(address) == "+" \o address

\* USSDMessage.from_element(root)
from_element(root) ==
    [msgType |-> root.msgType, senderCB |-> root.senderCB,
     msisdn |-> normalize_address(root.msIsdn),
     serviceCode |-> root.serviceCode, ussdString |-> root.ussdString]

\* soap_fault(faultcode, faultstring) and SoapFault.to_element()
soap_fault(faultcode, faultstring) ==
    [tag |-> "Fault", faultcode |-> faultcode, faultstring |-> faultstring]
to_element(f) == soap_fault(f.code, f.message)

\* NOTIFICATION_NS.notifyUssdReceptionResponse(NOTIFICATION_NS.result('0'))
notifyUssdReceptionResponse ==
    [tag |-> "notifyUssdReceptionResponse", result |-> "0"]

\* process_unknown that raises a client-class fault
process_unknown_Client(root, header, name) ==
    SoapFault("soapenv:Client", "No handler for " \o name)

\* process_unknown(root, header, name): raises
process_unknown(root, header, name) ==
    SoapFault("soapenv:Server", "No handler for " \o name)

\* process_notifyUssdReception that does not read the linkid of the header
process_notifyUssdReception_NoLinkid(root, header, name) ==
    LET linkid == None
        ussd_message == from_element(root)
    IN [type |-> "callback", session_id |-> ussd_message.senderCB,
        linkid |-> linkid, message |-> ussd_message]

\* process_notifyUssdReception(root, header, name) up to its call of
\* callback_message_received: the arguments of the call
process_notifyUssdReception(root, header, name) ==
    LET linkid == header
        ussd_message == from_element(root)
    IN [type |-> "callback", session_id |-> ussd_message.senderCB,
        linkid |-> linkid, message |-> ussd_message]

\* process that hands a body without children to process_unknown
process_EmptyUnknown(body, header) ==
    IF body = <<>>
    THEN process_unknown(body, header, "Body")
    ELSE LET child == body[1]
             localname == child.name
         IN IF localname = "notifyUssdReception"
            THEN process_notifyUssdReception(child, header, localname)
            ELSE process_unknown(child, header, localname)

\* process(request, body, header): the first child of the body decides; the
\* only process_<localname> methods of the resource are
\* process_notifyUssdReception and process_unknown itself
process(body, header) ==
    IF body = <<>>
    THEN SoapFault("soapenv:Client", "No actionable items")
    ELSE LET child == body[1]
             localname == child.name
         IN IF localname = "notifyUssdReception"
            THEN process_notifyUssdReception(child, header, localname)
            ELSE process_unknown(child, header, localname)

\* _handleSuccess(result): the response code set and the body returned
HandleSuccess(res) == [code |-> OK, body |-> res]

\* _handleError that leaves the response code at OK
HandleError_StatusOK(f) ==
    [code |-> OK,
     body |-> IF Check(f, {"SoapFault"})
              THEN to_element(f)
              ELSE soap_fault("soapenv:Server", GetErrorMessage(f))]

\* _handleError(f): the response code set and the body returned
HandleError(f) ==
    [code |-> INTERNAL_SERVER_ERROR,
     body |-> IF Check(f, {"SoapFault"})
              THEN to_element(f)
              ELSE soap_fault("soapenv:Server", GetErrorMessage(f))]

\* _writeResponse(response): request.write of the envelope and
\* request.finish(), on a request whose code h.code was set
WriteResponse(resp, h) ==
    [written |-> resp.written + 1, finished |-> resp.finished + 1,
     code |-> h.code, body |-> h.body]

\* the Failure a failed handle_raw_inbound_message leaves in its Deferred
CallbackFailure(res) ==
    [type |-> res.type, code |-> None,
     message |-> IF res.type = "KeyError" THEN "'ussd_code'"
                 ELSE "session store failed"]

\* maybeDeferred(self.callback_message_received, message.senderCB, linkid,
\* message) made while the POST of notification r is processed
CallbackCall(r, d) ==
    [req |-> r, session_id |-> d.session_id, linkid |-> d.linkid,
     message |-> d.message]

\* ConnectionLost that cancels the Deferred of the callback
ConnectionLost_Cancels(r) ==
    /\ post[r] # NoPost
    /\ response[r].written = 0
    /\ ~lost[r]
    /\ lost' = [lost EXCEPT ![r] = TRUE]
    /\ rpc' = [rpc EXCEPT ![r] = "done"]
    /\ rresult' = [rresult EXCEPT ![r] = [type |-> "CancelledError"]]
    /\ UNCHANGED <<request, sessions, expires, inbound>>
    /\ UNCHANGED <<post, response, callbacks>>
    /\ UNCHANGED <<varsOut, varsClient, varsRc, varsMtech>>

\* the carrier's connection is lost before the response of r is written;
\* render_POST has asked for no notification of it (no notifyFinish) and the
\* Deferred it returned NOT_DONE_YET for stays as it is
ConnectionLost(r) ==
    /\ post[r] # NoPost
    /\ response[r].written = 0
    /\ ~lost[r]
    /\ lost' = [lost EXCEPT ![r] = TRUE]
    /\ UNCHANGED <<post, response, callbacks>>
    /\ UNCHANGED <<varsOut, varsIn, varsClient, varsRc, varsMtech>>

\* render_POST that answers a dispatched notification at once, without
\* waiting for the callback
render_POST_FireAndForget(r, content) ==
    /\ post[r] = NoPost
    /\ \A k \in ReqIds : k < r => post[k] # NoPost
    /\ post' = [post EXCEPT ![r] = content]
    /\ UNCHANGED lost
    /\ LET d == IF content.kind = "invalid" THEN ParseError
                ELSE IF content.kind # "envelope" THEN MalformedSoapRequest
                ELSE process(content.body, content.header)
       IN IF d.type = "callback"
          THEN /\ HandleRawInboundMessage(r, d.message)
               /\ callbacks' = Append(callbacks, CallbackCall(r, d))
               /\ response' = [response EXCEPT ![r] =
                     WriteResponse(@,
                         HandleSuccess(notifyUssdReceptionResponse))]
          ELSE /\ response' = [response EXCEPT ![r] =
                                  WriteResponse(@, HandleError(d))]
               /\ rpc' = [rpc EXCEPT ![r] = "no_callback"]
               /\ UNCHANGED <<request, sessions, expires, inbound, rresult>>
               /\ UNCHANGED callbacks
               /\ UNCHANGED <<varsOut, varsClient, varsRc, varsMtech>>

\* render_POST(request) for notification r: parse, unwrap and process, up to
\* the first wait of the callback; a failure raised on the way goes through
\* _handleError and _writeResponse at once
render_POST(r, content) ==
    /\ post[r] = NoPost
    /\ \A k \in ReqIds : k < r => post[k] # NoPost
    /\ post' = [post EXCEPT ![r] = content]
    /\ UNCHANGED lost
    /\ LET d == IF content.kind = "invalid" THEN ParseError
                ELSE IF content.kind # "envelope" THEN MalformedSoapRequest
                ELSE process(content.body, content.header)
       IN IF d.type = "callback"
          THEN /\ HandleRawInboundMessage(r, d.message)
               /\ callbacks' = Append(callbacks, CallbackCall(r, d))
               /\ UNCHANGED response
          ELSE /\ response' = [response EXCEPT ![r] =
                                  WriteResponse(@, HandleError(d))]
               /\ rpc' = [rpc EXCEPT ![r] = "no_callback"]
               /\ UNCHANGED <<request, sessions, expires, inbound, rresult>>
               /\ UNCHANGED callbacks
               /\ UNCHANGED <<varsOut, varsClient, varsRc, varsMtech>>

\* the step of the callback of notification r that is being taken was made
\* on behalf of a POST: when it ends the callback, the Deferred of process
\* fires and its chain (the lambda of process_notifyUssdReception,
\* _handleSuccess, _handleError, _writeResponse) runs
CallbackFired(r) ==
    /\ response' = [response EXCEPT ![r] =
          IF rpc'[r] # "done" THEN @
          ELSE IF rresult'[r].type = "value"
          THEN WriteResponse(@, HandleSuccess(notifyUssdReceptionResponse))
          ELSE WriteResponse(@, HandleError(CallbackFailure(rresult'[r])))]
    /\ UNCHANGED <<post, callbacks, lost>>

NextServer ==
    \/ \E r \in ReqIds, content \in Contents : render_POST(r, content)
    \/ \E r \in ReqIds, ok \in BOOLEAN :
          CreateSessionDone(r, ok) /\ CallbackFired(r)
    \/ \E r \in ReqIds, ok \in BOOLEAN :
          LoadSessionDone(r, ok) /\ CallbackFired(r)
    \/ \E r \in ReqIds : PublishMessageDone(r) /\ CallbackFired(r)
    \/ \E r \in ReqIds : ConnectionLost(r)
    \/ \E s \in SessionIds : ExpireSession(s)

SpecServer == Init /\ [][NextServer]_vars

(***************************************************************************)
(* ParlayXUSSDClient: the SOAP client of the carrier's services.           *)
(***************************************************************************)
\* the arguments the client is constructed with
service_provider_service_id == "service_id"
service_provider_id == "user"
service_provider_password == "password"
short_code == "short"
endpoint == "endpoint"
send_uri == "send"
notification_uri == "notification"

\* addresses and linkids the send calls are made with
ToAddrs == {"+27117654321"}
CallLinkids == {None, "linkid"}

\* format_timestamp(datetime): the time t as a string of 14 digits
format_timestamp(t) == "2013061810593" \o ToString(t)

\* make_password(spId, password, timestamp): the digest of the concatenation
make_password(spId, password, timestamp) ==
    "md5(" \o spId \o password \o timestamp \o ")"

\* format_address(msisdn) of an address in international format
format_address(msisdn) == "tel:" \o SubSeq(msisdn, 2, Len(msisdn))

\* an element with a text
Element(tag, text) == [tag |-> tag, text |-> text]

\* _make_header that sends the fields without value as empty elements
make_header_EmptyElements(now, service_subscription_address, linkid) ==
    LET timestamp == format_timestamp(now)
        oa == IF service_subscription_address # None
              THEN service_subscription_address ELSE ""
        li == IF linkid # None THEN linkid ELSE ""
    IN <<Element("spId", service_provider_id),
         Element("spPassword",
                 make_password(service_provider_id,
                               service_provider_password, timestamp)),
         Element("serviceId", service_provider_service_id),
         Element("timeStamp", timestamp),
         Element("OA", oa), Element("linkid", li)>>

\* _make_header that reads the clock a second time for the timeStamp field,
\* when it has moved on
make_header_TwoReads(now, service_subscription_address, linkid) ==
    LET timestamp == format_timestamp(now)
        other ==
            (IF service_subscription_address # None
             THEN <<Element("OA", service_subscription_address)>>
             ELSE <<>>) \o
            (IF linkid # None THEN <<Element("linkid", linkid)>> ELSE <<>>)
    IN <<Element("spId", service_provider_id),
         Element("spPassword",
                 make_password(service_provider_id,
                               service_provider_password, timestamp)),
         Element("serviceId", service_provider_service_id),
         Element("timeStamp", format_timestamp(now + 1))>> \o other

\* _make_header(service_subscription_address, linkid) when self._now()
\* returns now: the children of the RequestSOAPHeader element, in order
make_header(now, service_subscription_address, linkid) ==
    LET timestamp == format_timestamp(now)
        other ==
            (IF service_subscription_address # None
             THEN <<Element("OA", service_subscription_address)>>
             ELSE <<>>) \o
            (IF linkid # None THEN <<Element("linkid", linkid)>> ELSE <<>>)
    IN <<Element("spId", service_provider_id),
         Element("spPassword",
                 make_password(service_provider_id,
                               service_provider_password, timestamp)),
         Element("serviceId", service_provider_service_id),
         Element("timeStamp", timestamp)>> \o other

\* the faults a call expects
NotificationFaults == <<"ServiceException">>
SendFaults == <<"PolicyException", "ServiceException">>

\* the bodies of the four requests
StartBody(c) ==
    [tag |-> "startUSSDNotification",
     reference |-> [endpoint |-> endpoint,
                    interfaceName |-> "notifyUssdReception",
                    correlator |-> c],
     ussdServiceActivationNumber |-> short_code]

StopBody(c) == [tag |-> "stopUSSDNotification", correlator |-> c]

SendBody(to_addr) ==
    [tag |-> "sendUssd", msIsdn |-> format_address(to_addr)]

AbortBody(to_addr) ==
    [tag |-> "sendUssdAbort", addresses |-> format_address(to_addr)]

\* ParlayXUSSDClient.__init__: the client draws its correlator
CreateClient(c) ==
    /\ tpc = "created"
    /\ correlator = None
    /\ correlator' = c
    /\ UNCHANGED <<clock, reads, invoked, requests, tpc, start_notifications>>
    /\ UNCHANGED <<varsOut, varsIn, varsHttp, varsRc, varsMtech>>

\* the clock self._now() reads moves on
Tick ==
    /\ clock < MaxClock
    /\ clock' = clock + 1
    /\ UNCHANGED <<reads, correlator, invoked, requests, tpc,
                   start_notifications>>
    /\ UNCHANGED <<varsOut, varsIn, varsHttp, varsRc, varsMtech>>

\* a call that sends nothing when a request with the same body and to the same
\* uri has been sent before
ClientCall_Dedup(method, uri, body, service_subscription_address, linkid, expected_faults) ==
    /\ correlator # None
    /\ reads' = reads + 1
    /\ invoked' = Append(invoked,
                          [method |-> method, at |-> clock,
                           service_subscription_address |->
                               service_subscription_address,
                           linkid |-> linkid])
    /\ requests' =
           IF \E i \in 1..Len(requests) :
                  requests[i].uri = uri /\ requests[i].body = body
           THEN requests
           ELSE Append(requests,
                       [uri |-> uri, action |-> "", body |-> body,
                        header |-> make_header(clock,
                                               service_subscription_address,
                                               linkid),
                        expected_faults |-> expected_faults])
    /\ UNCHANGED <<clock, correlator>>

\* what the four methods share: the header is built by _make_header, which
\* reads the clock once, and perform_soap_request is called once
ClientCall(method, uri, body, service_subscription_address, linkid, expected_faults) ==
    /\ correlator # None
    /\ reads' = reads + 1
    /\ invoked' = Append(invoked,
                          [method |-> method, at |-> clock,
                           service_subscription_address |->
                               service_subscription_address,
                           linkid |-> linkid])
    /\ requests' =
           Append(requests,
                  [uri |-> uri, action |-> "", body |-> body,
                   header |-> make_header(clock, service_subscription_address,
                                          linkid),
                   expected_faults |-> expected_faults])
    /\ UNCHANGED <<clock, correlator>>

\* start_ussd_notification()
StartUssdNotificationCall ==
    ClientCall("start_ussd_notification", notification_uri,
               StartBody(correlator), None, None, NotificationFaults)

\* stop_ussd_notification() that names a correlator drawn for this call
StopUssdNotificationCall_OwnCorrelator ==
    \E c \in Correlators :
        ClientCall("stop_ussd_notification", notification_uri,
                   StopBody(c), None, None, NotificationFaults)

\* stop_ussd_notification()
StopUssdNotificationCall ==
    ClientCall("stop_ussd_notification", notification_uri,
               StopBody(correlator), None, None, NotificationFaults)

\* send_ussd(to_addr, ..., linkid)
SendUssdCall(to_addr, linkid) ==
    ClientCall("send_ussd", send_uri, SendBody(to_addr), to_addr, linkid,
               SendFaults)

\* send_ussd_abort(to_addr, ..., linkid)
SendUssdAbortCall(to_addr, linkid) ==
    ClientCall("send_ussd_abort", send_uri, AbortBody(to_addr), to_addr,
               linkid, SendFaults)

\* the four methods called on a client
StartUssdNotification ==
    /\ StartUssdNotificationCall
    /\ UNCHANGED <<tpc, start_notifications, varsOut, varsIn, varsHttp, varsRc, varsMtech>>

StopUssdNotification ==
    /\ StopUssdNotificationCall
    /\ UNCHANGED <<tpc, start_notifications, varsOut, varsIn, varsHttp, varsRc, varsMtech>>

SendUssd(to_addr, linkid) ==
    /\ SendUssdCall(to_addr, linkid)
    /\ UNCHANGED <<tpc, start_notifications, varsOut, varsIn, varsHttp, varsRc, varsMtech>>

SendUssdAbort(to_addr, linkid) ==
    /\ SendUssdAbortCall(to_addr, linkid)
    /\ UNCHANGED <<tpc, start_notifications, varsOut, varsIn, varsHttp, varsRc, varsMtech>>

\* a client and the calls made on it, at most MaxCalls of them
NextClient ==
    \/ \E c \in Correlators : CreateClient(c)
    \/ Tick
    \/ Len(invoked) < MaxCalls /\ StartUssdNotification
    \/ Len(invoked) < MaxCalls /\ StopUssdNotification
    \/ \E to_addr \in ToAddrs, linkid \in CallLinkids :
           Len(invoked) < MaxCalls /\ SendUssd(to_addr, linkid)
    \/ \E to_addr \in ToAddrs, linkid \in CallLinkids :
           Len(invoked) < MaxCalls /\ SendUssdAbort(to_addr, linkid)

SpecClient == Init /\ [][NextClient]_vars

(***************************************************************************)
(* setup_transport and teardown_transport.  tpc is the position of the     *)
(* transport: each yield of the two methods is a position, and what is     *)
(* waited for there succeeds or fails.                                     *)
(***************************************************************************)
\* setup_transport up to its first yield, on SessionManager.from_redis_config
SetupTransport ==
    /\ tpc = "created"
    /\ correlator = None
    /\ tpc' = "session_manager"
    /\ UNCHANGED <<clock, reads, correlator, invoked, requests,
                   start_notifications>>
    /\ UNCHANGED <<varsOut, varsIn, varsHttp, varsRc, varsMtech>>

\* the session manager is there, or the failure leaves setup_transport; next
\* yield on start_web_resources
SessionManagerDone(ok) ==
    /\ tpc = "session_manager"
    /\ tpc' = IF ok THEN "web_resource" ELSE "failed_before_web"
    /\ UNCHANGED <<clock, reads, correlator, invoked, requests,
                   start_notifications>>
    /\ UNCHANGED <<varsOut, varsIn, varsHttp, varsRc, varsMtech>>

\* setup_transport that registers whatever the setting says
WebResourcesDone_AlwaysStarts(ok, c) ==
    /\ tpc = "web_resource"
    /\ IF ok
       THEN /\ tpc' = "starting"
            /\ correlator' = c
            /\ reads' = reads + 1
            /\ invoked' = Append(invoked,
                                 [method |-> "start_ussd_notification",
                                  at |-> clock,
                                  service_subscription_address |-> None,
                                  linkid |-> None])
            /\ requests' =
                   Append(requests,
                          [uri |-> notification_uri, action |-> "",
                           body |-> StartBody(c),
                           header |-> make_header(clock, None, None),
                           expected_faults |-> NotificationFaults])
            /\ UNCHANGED clock
       ELSE /\ tpc' = "failed_before_web"
            /\ UNCHANGED <<clock, reads, correlator, invoked, requests>>
    /\ UNCHANGED start_notifications
    /\ UNCHANGED <<varsOut, varsIn, varsHttp, varsRc, varsMtech>>

\* the web resource listens: the client is created and, if start_notifications
\* is set, start_ussd_notification is called and waited for; or the failure
\* leaves setup_transport before self.web_resource is assigned
WebResourcesDone(ok, c) ==
    /\ tpc = "web_resource"
    /\ IF ok
       THEN IF start_notifications
            THEN /\ tpc' = "starting"
                 /\ correlator' = c
                 /\ reads' = reads + 1
                 /\ invoked' = Append(invoked,
                                      [method |-> "start_ussd_notification",
                                       at |-> clock,
                                       service_subscription_address |-> None,
                                       linkid |-> None])
                 /\ requests' =
                        Append(requests,
                               [uri |-> notification_uri, action |-> "",
                                body |-> StartBody(c),
                                header |-> make_header(clock, None, None),
                                expected_faults |-> NotificationFaults])
                 /\ UNCHANGED clock
            ELSE /\ tpc' = "running"
                 /\ correlator' = c
                 /\ UNCHANGED <<clock, reads, invoked, requests>>
       ELSE /\ tpc' = "failed_before_web"
            /\ UNCHANGED <<clock, reads, correlator, invoked, requests>>
    /\ UNCHANGED start_notifications
    /\ UNCHANGED <<varsOut, varsIn, varsHttp, varsRc, varsMtech>>

\* the Deferred of start_ussd_notification fires: setup_transport is done, or
\* the fault leaves it
StartDone(ok) ==
    /\ tpc = "starting"
    /\ tpc' = IF ok THEN "running" ELSE "failed_at_start"
    /\ UNCHANGED <<clock, reads, correlator, invoked, requests,
                   start_notifications>>
    /\ UNCHANGED <<varsOut, varsIn, varsHttp, varsRc, varsMtech>>

\* teardown_transport up to its yield on self.web_resource.loseConnection();
\* without a web resource the attribute is missing and the method is left
TeardownTransport ==
    /\ tpc \in {"running", "failed_at_start", "failed_before_web"}
    /\ tpc' = IF tpc = "failed_before_web" THEN "teardown_no_web" ELSE "losing"
    /\ UNCHANGED <<clock, reads, correlator, invoked, requests,
                   start_notifications>>
    /\ UNCHANGED <<varsOut, varsIn, varsHttp, varsRc, varsMtech>>

\* the port is closed: if start_notifications is set, stop_ussd_notification
\* is called and waited for; or the failure leaves teardown_transport
LoseConnectionDone(ok) ==
    /\ tpc = "losing"
    /\ IF ok
       THEN IF start_notifications
            THEN /\ tpc' = "stopping"
                 /\ StopUssdNotificationCall
            ELSE /\ tpc' = "stopped"
                 /\ UNCHANGED <<clock, reads, correlator, invoked, requests>>
       ELSE /\ tpc' = "lose_failed"
            /\ UNCHANGED <<clock, reads, correlator, invoked, requests>>
    /\ UNCHANGED start_notifications
    /\ UNCHANGED <<varsOut, varsIn, varsHttp, varsRc, varsMtech>>

\* the Deferred of stop_ussd_notification fires
StopDone(ok) ==
    /\ tpc = "stopping"
    /\ tpc' = IF ok THEN "stopped" ELSE "stop_failed"
    /\ UNCHANGED <<clock, reads, correlator, invoked, requests,
                   start_notifications>>
    /\ UNCHANGED <<varsOut, varsIn, varsHttp, varsRc, varsMtech>>

\* handle_outbound_message calls send_ussd on the client of the transport
TransportSendUssd(to_addr) ==
    /\ tpc = "running"
    /\ SendUssd(to_addr, None)

\* a transport with either setting, set up and torn down, with at most
\* MaxCalls calls of its client
NextLifecycle ==
    \/ SetupTransport
    \/ \E ok \in BOOLEAN : SessionManagerDone(ok)
    \/ \E ok \in BOOLEAN, c \in Correlators : WebResourcesDone(ok, c)
    \/ \E ok \in BOOLEAN : StartDone(ok)
    \/ TeardownTransport
    \/ \E ok \in BOOLEAN : LoseConnectionDone(ok)
    \/ \E ok \in BOOLEAN : StopDone(ok)
    \/ Tick
    \/ \E to_addr \in ToAddrs :
           Len(invoked) < MaxCalls /\ TransportSendUssd(to_addr)

InitLifecycle == \E setting \in BOOLEAN : InitWith(setting)

SpecLifecycle == InitLifecycle /\ [][NextLifecycle]_vars

(***************************************************************************)
(* ReconnectingClientService.  The delayed calls the service has made on   *)
(* the clock and the connects it has made on the endpoint are kept by      *)
(* state; the service itself holds at most one of each, the last made.     *)
(* A delayed call that has run or was cancelled refuses cancel() with      *)
(* AlreadyCalled or AlreadyCancelled; cancel() of a Deferred that has      *)
(* fired does nothing.                                                     *)
(***************************************************************************)
\* ReconnectingClientService.factor, in thousandths
factor == 2718

\* what the jitter adds to a delay, in seconds
Jitters == {-1, 0, 1}

\* the limits a user sets on an instance
MaxRetriesValues == {1, 2}

\* the delay of the next attempt: grown by the factor up to maxDelay, then
\* drawn around that value
NextDelay(d, jit) ==
    LET grown == (d * factor) \div 1000
    IN (IF grown < maxDelay THEN grown ELSE maxDelay) + jit

\* retry() that takes no notice of maxRetries
Retry_NoLimit(trying, jit, called) ==
    IF trying = 0
    THEN /\ trace' = called \o <<"retry">>
         /\ UNCHANGED <<retries, delay, timers, delayedRetryDeferred, inARow>>
    ELSE /\ retries' = retries + 1
         /\ delay' = NextDelay(delay, jit)
         /\ timers' = Append(timers, "pending")
         /\ delayedRetryDeferred' = Len(timers) + 1
         /\ inARow' = inARow + 1
         /\ trace' = called \o <<"retry", "callLater">>

\* retry(), with continueTrying as the caller has left it and after the
\* calls the step has made so far
Retry(trying, jit, called) ==
    IF trying = 0
    THEN /\ trace' = called \o <<"retry">>
         /\ UNCHANGED <<retries, delay, timers, delayedRetryDeferred, inARow>>
    ELSE /\ retries' = retries + 1
         /\ IF maxRetries # NoLimit /\ retries + 1 > maxRetries
            THEN /\ trace' = called \o <<"retry", "abandon">>
                 /\ UNCHANGED <<delay, timers, delayedRetryDeferred, inARow>>
            ELSE /\ delay' = NextDelay(delay, jit)
                 /\ timers' = Append(timers, "pending")
                 /\ delayedRetryDeferred' = Len(timers) + 1
                 /\ inARow' = inARow + 1
                 /\ trace' = called \o <<"retry", "callLater">>

\* service.maxRetries = n, set on a service that has not been started
SetMaxRetries(n) ==
    /\ ~running
    /\ timers = <<>>
    /\ retries = 0
    /\ maxRetries = NoLimit
    /\ maxRetries' = n
    /\ UNCHANGED <<continueTrying, retries, delay, timers,
                   delayedRetryDeferred, connects, connectingDeferred, trace,
                   inARow, running>>
    /\ UNCHANGED <<varsOut, varsIn, varsHttp, varsClient, varsMtech>>

\* startService()
StartService(jit) ==
    /\ ~running
    /\ running' = TRUE
    /\ continueTrying' = 1
    /\ Retry(1, jit, <<"startService">>)
    /\ UNCHANGED <<maxRetries, connects, connectingDeferred>>
    /\ UNCHANGED <<varsOut, varsIn, varsHttp, varsClient, varsMtech>>

\* stopService()
StopService ==
    /\ running
    /\ running' = FALSE
    /\ continueTrying' = 0
    /\ IF delayedRetryDeferred # NoCall
          /\ timers[delayedRetryDeferred] # "pending"
       THEN \* cancel() of the delayed call raises and stopService is left
            /\ trace' = <<"stopService", "AlreadyCalled">>
            /\ UNCHANGED <<timers, delayedRetryDeferred, connects,
                           connectingDeferred>>
       ELSE /\ timers' = IF delayedRetryDeferred # NoCall
                         THEN [timers EXCEPT
                                  ![delayedRetryDeferred] = "cancelled"]
                         ELSE timers
            /\ delayedRetryDeferred' = NoCall
            /\ connects' = IF connectingDeferred # NoCall
                              /\ connects[connectingDeferred] = "pending"
                           THEN [connects EXCEPT
                                    ![connectingDeferred] = "cancelled"]
                           ELSE connects
            /\ connectingDeferred' = NoCall
            /\ trace' = <<"stopService">>
    /\ UNCHANGED <<retries, delay, maxRetries, inARow>>
    /\ UNCHANGED <<varsOut, varsIn, varsHttp, varsClient, varsMtech>>

\* the clock runs delayed call i: reconnector() connects, adds the callback
\* and is left by the AttributeError of Deferred.errBack
Reconnector(i) ==
    /\ timers[i] = "pending"
    /\ timers' = [timers EXCEPT ![i] = "called"]
    /\ connects' = Append(connects, "pending")
    /\ connectingDeferred' = Len(connects) + 1
    /\ trace' = <<"reconnector", "connect", "addCallback", "AttributeError">>
    /\ UNCHANGED <<continueTrying, retries, delay, maxRetries,
                   delayedRetryDeferred, inARow, running>>
    /\ UNCHANGED <<varsOut, varsIn, varsHttp, varsClient, varsMtech>>

\* connect j succeeds: its Deferred fires clientConnected, which calls
\* resetDelay
ClientConnected(j) ==
    /\ connects[j] = "pending"
    /\ connects' = [connects EXCEPT ![j] = "connected"]
    /\ delay' = initialDelay
    /\ retries' = 0
    /\ inARow' = 0
    /\ trace' = <<"clientConnected", "resetDelay">>
    /\ UNCHANGED <<continueTrying, maxRetries, timers, delayedRetryDeferred,
                   connectingDeferred, running>>
    /\ UNCHANGED <<varsOut, varsIn, varsHttp, varsClient, varsMtech>>

\* connect j fails: its Deferred fires with the failure, and has no errback
ConnectFailed(j) ==
    /\ connects[j] = "pending"
    /\ connects' = [connects EXCEPT ![j] = "failed"]
    /\ trace' = <<"Unhandled error in Deferred">>
    /\ UNCHANGED <<continueTrying, retries, delay, maxRetries, timers,
                   delayedRetryDeferred, connectingDeferred, inARow, running>>
    /\ UNCHANGED <<varsOut, varsIn, varsHttp, varsClient, varsMtech>>

\* the proxy tells the service of the loss and not the protocol
ProxyConnectionLost_ServiceOnly(j, jit) ==
    /\ connects[j] = "connected"
    /\ connects' = [connects EXCEPT ![j] = "lost"]
    /\ Retry(continueTrying, jit, <<"clientConnectionLost">>)
    /\ UNCHANGED <<continueTrying, maxRetries, connectingDeferred, running>>
    /\ UNCHANGED <<varsOut, varsIn, varsHttp, varsClient, varsMtech>>

\* _RestartableProtocolProxy.connectionLost(reason) of connection j
ProxyConnectionLost(j, jit) ==
    /\ connects[j] = "connected"
    /\ connects' = [connects EXCEPT ![j] = "lost"]
    /\ Retry(continueTrying, jit,
             <<"protocol.connectionLost", "clientConnectionLost">>)
    /\ UNCHANGED <<continueTrying, maxRetries, connectingDeferred, running>>
    /\ UNCHANGED <<varsOut, varsIn, varsHttp, varsClient, varsMtech>>

\* A service that is started and stopped in turn, with at most MaxTimers
\* delayed calls.
NextReconnect ==
    \/ \E n \in MaxRetriesValues : SetMaxRetries(n)
    \/ \E jit \in Jitters :
          /\ Len(timers) < MaxTimers
          /\ retries <= MaxTimers
          /\ StartService(jit)
    \/ StopService
    \/ \E i \in 1..Len(timers) : Reconnector(i)
    \/ \E j \in 1..Len(connects) : ClientConnected(j)
    \/ \E j \in 1..Len(connects) : ConnectFailed(j)
    \/ \E j \in 1..Len(connects), jit \in Jitters :
          /\ Len(timers) < MaxTimers
          /\ retries <= MaxTimers
          /\ ProxyConnectionLost(j, jit)

SpecReconnect == Init /\ [][NextReconnect]_vars

(***************************************************************************)
(* MtechUssdTransport.  The handler runs without waiting: the session      *)
(* store is called synchronously.  mlog keeps, in order, the requests      *)
(* received, the sessions saved, the messages published and the responses  *)
(* finished.                                                               *)
(***************************************************************************)
\* twisted.web.http.BAD_REQUEST, the code of finish_request(msgid, "", code=400)
BAD_REQUEST == 400

\* the bodies of the requests: one that does not parse, and pages with a
\* session_id, with or without status and mobile_number; a status request
\* is taken with all that would make it open a session
MtechBodies ==
    {[xml |-> "invalid"]} \cup
    {body \in [xml : {"ok"}, session_id : SessionIds,
               status : {None, "cancel"}, page_id : {"0", "1"},
               mobile_number : {None, "27831234567"},
               gate : {"*120*666#"}, data : {"hello"}] :
        body.status # None =>
            body.page_id = "0" /\ body.mobile_number # None}

\* the number of requests received
Received == Cardinality({i \in 1..Len(mlog) : mlog[i].op = "request"})

\* entries of mlog
RequestEntry(msgid, body) == [op |-> "request", msgid |-> msgid, body |-> body]
SaveEntry(msgid, session_id) ==
    [op |-> "save", msgid |-> msgid, session_id |-> session_id]
FinishEntry(msgid, code) == [op |-> "finish", msgid |-> msgid, code |-> code]
PublishEntry(msgid, content, session, session_event, session_id) ==
    [op |-> "publish", msgid |-> msgid, content |-> content,
     to_addr |-> session.to_addr, from_addr |-> session.from_addr,
     session_event |-> session_event, session_id |-> session_id]

\* the request opens a session
IsNewSession(body) == body.page_id = "0" /\ body.mobile_number # None

\* the handler that goes on with whatever load_session returned
MtechHandleRawInboundMessage_NoCheck(msgid, body) ==
    /\ msgid = Received + 1
    /\ LET received == Append(mlog, RequestEntry(msgid, body))
       IN IF body.xml = "invalid"
          THEN /\ mlog' = Append(received, FinishEntry(msgid, BAD_REQUEST))
               /\ UNCHANGED msessions
          ELSE IF body.status # None
          THEN /\ mlog' = Append(received, FinishEntry(msgid, OK))
               /\ UNCHANGED msessions
          ELSE IF IsNewSession(body)
          THEN LET session == [from_addr |-> body.mobile_number,
                               to_addr |-> body.gate]
               IN /\ msessions' =
                         CreateSession(msessions, body.session_id, session)
                  /\ mlog' = received \o
                         <<SaveEntry(msgid, body.session_id),
                           PublishEntry(msgid, body.data, session,
                                        SESSION_NEW, body.session_id)>>
          ELSE LET loaded == LoadSession(msessions, body.session_id)
                   session == IF "from_addr" \in DOMAIN loaded
                              THEN loaded
                              ELSE [from_addr |-> None, to_addr |-> None]
               IN /\ mlog' = Append(received,
                         PublishEntry(msgid, body.data, session,
                                      SESSION_RESUME, body.session_id))
                  /\ UNCHANGED msessions
    /\ UNCHANGED <<varsOut, varsIn, varsHttp, varsClient, varsRc>>

\* handle_raw_inbound_message(msgid, request), with the body of the request
MtechHandleRawInboundMessage(msgid, body) ==
    /\ msgid = Received + 1
    /\ LET received == Append(mlog, RequestEntry(msgid, body))
       IN IF body.xml = "invalid"
          THEN /\ mlog' = Append(received, FinishEntry(msgid, BAD_REQUEST))
               /\ UNCHANGED msessions
          ELSE IF body.status # None
          THEN \* handle_status_message answers with an empty page
               /\ mlog' = Append(received, FinishEntry(msgid, OK))
               /\ UNCHANGED msessions
          ELSE IF IsNewSession(body)
          THEN LET session == [from_addr |-> body.mobile_number,
                               to_addr |-> body.gate]
               IN /\ msessions' =
                         CreateSession(msessions, body.session_id, session)
                  /\ mlog' = received \o
                         <<SaveEntry(msgid, body.session_id),
                           PublishEntry(msgid, body.data, session,
                                        SESSION_NEW, body.session_id)>>
          ELSE LET session == LoadSession(msessions, body.session_id)
               IN IF "from_addr" \notin DOMAIN session
                  THEN /\ mlog' = Append(received,
                                         FinishEntry(msgid, BAD_REQUEST))
                       /\ UNCHANGED msessions
                  ELSE /\ mlog' = Append(received,
                             PublishEntry(msgid, body.data, session,
                                          SESSION_RESUME, body.session_id))
                       /\ UNCHANGED msessions
    /\ UNCHANGED <<varsOut, varsIn, varsHttp, varsClient, varsRc>>

\* the record of session_id has reached its expiry
MtechExpireSession(session_id) ==
    /\ msessions[session_id] # EmptyDict
    /\ msessions' = [msessions EXCEPT ![session_id] = EmptyDict]
    /\ UNCHANGED mlog
    /\ UNCHANGED <<varsOut, varsIn, varsHttp, varsClient, varsRc>>

\* the requests whose message was published and that have no response yet
Unanswered ==
    {mlog[i].msgid : i \in {k \in 1..Len(mlog) : mlog[k].op = "publish"}}
        \ {mlog[i].msgid : i \in {k \in 1..Len(mlog) : mlog[k].op = "finish"}}

\* handle_outbound_message(message): the reply to the message of request
\* in_reply_to finishes that request
MtechHandleOutboundMessage(in_reply_to) ==
    /\ in_reply_to \in Unanswered
    /\ mlog' = Append(mlog, FinishEntry(in_reply_to, OK))
    /\ UNCHANGED msessions
    /\ UNCHANGED <<varsOut, varsIn, varsHttp, varsClient, varsRc>>

NextMtech ==
    \/ \E msgid \in 1..MaxMtech, body \in MtechBodies :
          MtechHandleRawInboundMessage(msgid, body)
    \/ \E s \in SessionIds : MtechExpireSession(s)
    \/ \E msgid \in 1..MaxMtech : MtechHandleOutboundMessage(msgid)

SpecMtech == Init /\ [][NextMtech]_vars

(***************************************************************************)
(* Properties of the outbound path.                                        *)
(***************************************************************************)
\* positions in events of the events of type t published for message m
EventsOf(m, t) ==
    {i \in 1..Len(events) :
        events[i].user_message_id = m /\ events[i].event_type = t}

Acks(m) == Cardinality(EventsOf(m, "ack"))
Nacks(m) == Cardinality(EventsOf(m, "nack"))

\* the send call of m was made and the chain of its Deferred has run
Completed(m) == pc[m] = "done" /\ outcome[m] # NoOutcome

\* fault codes of the form <prefix>Server
ServerClassCodes ==
    {c \in FaultCodes : \E n \in 0..Len(c) : c = SubSeq(c, 1, n) \o "Server"}

DomainFault(f) == f.type \in {"ServiceException", "PolicyException"}
ServerClassFault(f) == f.type = "SoapFault" /\ f.code \in ServerClassCodes
ClientClassFault(f) == f.type = "SoapFault" /\ f.code \notin ServerClassCodes
NonSoapFailure(f) == f.type \in OtherErrorTypes

\* C1: for every outbound message and every outcome of the send call, at
\* most one acknowledgement event (ack or nack) is ever published for its
\* message id.
C1_AtMostOneAcknowledgement ==
    \A m \in MsgIds : Acks(m) + Nacks(m) <= 1

C1_Witness ==
    \E m, k \in MsgIds :
        /\ Completed(m) /\ NonSoapFailure(outcome[m]) /\ Nacks(m) = 1
        /\ Completed(k) /\ outcome[k].type = "value" /\ Acks(k) = 1

C4_DomainFaultPermanent ==
    \A m \in MsgIds :
        (outcome[m] # NoOutcome /\ DomainFault(outcome[m])) =>
            /\ Nacks(m) = 1 /\ Acks(m) = 0
            /\ result[m].type # "TemporaryFailure"
            /\ pc[m] = "nack_wait" => result[m] = NoResult
            /\ pc[m] = "done" =>
                  result[m] = [type |-> "PermanentFailure",
                               failure |-> outcome[m]]

C4_Witness ==
    \E m \in MsgIds :
        /\ Completed(m)
        /\ outcome[m].type = "ServiceException"
        /\ outcome[m].code = "soapenv:Server"
        /\ result[m].type = "PermanentFailure"

\* C5: a send failing with a SOAP fault that is no domain fault and whose
\* code ends in 'Server' is classified Temporary, never Permanent.
C5_ServerClassTemporary ==
    \A m \in MsgIds :
        (outcome[m] # NoOutcome /\ ServerClassFault(outcome[m])) =>
            /\ pc[m] = "done"
            /\ result[m] = [type |-> "TemporaryFailure",
                            failure |-> outcome[m]]

C5_Witness ==
    \E m \in MsgIds :
        /\ outcome[m] = [type |-> "SoapFault", code |-> "soapenv:Server",
                         message |-> "failed"]
        /\ result[m].type = "TemporaryFailure"

\* C6: a send failing with a SOAP fault that is no domain fault and whose
\* code does not end in 'Server' is classified Permanent: a nack is
\* published and PermanentFailure is raised.
C6_ClientClassPermanent ==
    \A m \in MsgIds :
        (outcome[m] # NoOutcome /\ ClientClassFault(outcome[m])) =>
            /\ Nacks(m) = 1
            /\ result[m].type # "TemporaryFailure"
            /\ pc[m] = "done" =>
                  result[m] = [type |-> "PermanentFailure",
                               failure |-> outcome[m]]

C6_Witness ==
    \E m, k \in MsgIds :
        /\ Completed(m) /\ outcome[m].type = "SoapFault"
        /\ outcome[m].code = "soapenv:Client"
        /\ result[m].type = "PermanentFailure"
        /\ Completed(k) /\ outcome[k].type = "SoapFault"
        /\ outcome[k].code = "soapenv:Servers"
        /\ result[k].type = "PermanentFailure"

\* C7: a send failing with a failure that is no SOAP fault publishes one
\* nack whose reason is the failure's error message and then passes the
\* original failure through unchanged, wrapped in neither PermanentFailure
\* nor TemporaryFailure, and no ack is published afterwards.
C7_NonSoapPassedThrough ==
    \A m \in MsgIds :
        (outcome[m] # NoOutcome /\ NonSoapFailure(outcome[m])) =>
            /\ Nacks(m) = 1 /\ Acks(m) = 0
            /\ \A i \in EventsOf(m, "nack") :
                  events[i].nack_reason = outcome[m].message
            /\ pc[m] \in {"nack_wait", "done"}
            /\ pc[m] = "done" => result[m] = outcome[m]

C7_Witness ==
    \E m \in MsgIds :
        /\ Completed(m) /\ outcome[m].type = "ValueError"
        /\ result[m] = outcome[m] /\ Nacks(m) = 1

C9_SuccessAcked ==
    \A m \in MsgIds :
        /\ outcome[m].type = "value" =>
              /\ Acks(m) = 1 /\ Nacks(m) = 0
              /\ \A i \in EventsOf(m, "ack") :
                    events[i].sent_message_id = outcome[m].value
              /\ pc[m] = "done" => result[m].type = "value"
        /\ pc[m] \in {"idle", "sending"} => Acks(m) + Nacks(m) = 0

C9_Witness ==
    \E m \in MsgIds :
        /\ Completed(m)
        /\ outcome[m] = [type |-> "value", value |-> "request_message_id"]
        /\ Acks(m) = 1

(***************************************************************************)
(* Properties of the inbound path.                                         *)
(***************************************************************************)
\* positions in inbound of the messages published for notification r
InboundOf(r) == {i \in 1..Len(inbound) : inbound[i].req = r}

\* the message published for a NEW notification msg handled as r
NewInboundEvent(r, msg) ==
    [req |-> r, content |-> None, to_addr |-> msg.serviceCode,
     from_addr |-> msg.msisdn, session_event |-> "new",
     transport_metadata |-> msg]

\* every message published for a notification with msgType '0' has no
\* content, the notification's serviceCode as to_addr and session event NEW,
\* and a NEW notification handled to the end has published one
C10_NewEventShape ==
    /\ \A i \in 1..Len(inbound) :
          inbound[i].transport_metadata.msgType = "0" =>
              inbound[i] = NewInboundEvent(inbound[i].req,
                                           inbound[i].transport_metadata)
    /\ \A r \in ReqIds :
          (request[r].msgType = "0" /\ rresult[r].type = "value") =>
              Cardinality(InboundOf(r)) = 1

\* the step in which create_session completes for a NEW notification writes
\* the record of the notification's session id, storing the serviceCode,
\* and publishes the message
C10_NewCreatesSession ==
    \A r \in ReqIds :
        (rpc[r] = "create_session" /\ rpc'[r] = "publishing") =>
            /\ sessions'[request[r].senderCB] =
                  [ussd_code |-> request[r].serviceCode]
            /\ inbound' = Append(inbound, NewInboundEvent(r, request[r]))

NotNew(r) == request[r] # NoRequest /\ request[r].msgType # "0"

\* a notification that ended in the failed lookup of its session record has
\* published nothing
C11_NoEventWithoutSession ==
    \A r \in ReqIds : rresult[r].type = "KeyError" => InboundOf(r) = {}

\* the step in which load_session completes for an id without a record ends
\* the handling in a failure, publishes nothing and leaves the store as it is
C11_LookupOfMissingFails ==
    \A r \in ReqIds :
        (/\ rpc[r] = "load_session" /\ rpc'[r] # "load_session"
         /\ sessions[request[r].senderCB] = EmptyDict) =>
            /\ rpc'[r] = "done"
            /\ rresult'[r].type \in {"KeyError", "StoreError"}
            /\ inbound' = inbound
            /\ sessions' = sessions

\* C11: a RESUME or CLOSE notification for a session id without a record in
\* the session store (never created, or expired) fails: no inbound message
\* is published and no session record is created or written for the id.
C11_ResumeRequiresSession ==
    /\ []C11_NoEventWithoutSession
    /\ [][C11_LookupOfMissingFails]_vars

\* a RESUME failed on an id never created, and one on an id whose record,
\* created by a NEW, had expired
C11_Witness ==
    \E r, k \in ReqIds :
        /\ r < k
        /\ request[r].msgType = "0" /\ rresult[r].type = "value"
        /\ request[k].msgType = "1" /\ rresult[k].type = "KeyError"
        /\ request[k].senderCB = request[r].senderCB
        /\ sessions[request[k].senderCB] = EmptyDict

\* positions in inbound of the messages published for session id s
EventsOfSession(s) ==
    {i \in 1..Len(inbound) : inbound[i].transport_metadata.senderCB = s}

\* the last message published for session id s is that of a CLOSE
LastEventIsClose(s) ==
    /\ EventsOfSession(s) # {}
    /\ LET last == CHOOSE i \in EventsOfSession(s) :
                      \A k \in EventsOfSession(s) : k <= i
       IN inbound[last].session_event = "close"

\* C13 as stated: after a CLOSE notification for a session id has been
\* handled, no RESUME for that id publishes an inbound message unless a NEW
\* for the id came in between.
C13_Original ==
    \A i, j \in 1..Len(inbound) :
        (/\ i < j
         /\ inbound[i].session_event = "close"
         /\ inbound[j].session_event = "resume"
         /\ inbound[i].transport_metadata.senderCB =
               inbound[j].transport_metadata.senderCB) =>
            \E k \in EventsOfSession(inbound[i].transport_metadata.senderCB) :
                i < k /\ k < j /\ inbound[k].session_event = "new"

\* the step in which the lookup for a RESUME completes, after a CLOSE of the
\* same session id with no NEW in between: the message is published when the
\* record is still there, and the handling fails when it has expired
C13_ResumeAfterClose ==
    \A r \in ReqIds :
        (/\ rpc[r] = "load_session" /\ rpc'[r] # "load_session"
         /\ request[r].msgType = "1"
         /\ LastEventIsClose(request[r].senderCB)) =>
            IF sessions[request[r].senderCB] # EmptyDict
            THEN \/ rresult'[r].type = "StoreError"
                 \/ /\ rpc'[r] = "publishing"
                    /\ Len(inbound') = Len(inbound) + 1
                    /\ inbound'[Len(inbound')].req = r
                    /\ inbound'[Len(inbound')].session_event = "resume"
            ELSE /\ rresult'[r].type \in {"KeyError", "StoreError"}
                 /\ inbound' = inbound

\* the step that publishes the message of a CLOSE leaves the record of the
\* session in the store
C13_CloseKeepsRecord ==
    \A r \in ReqIds :
        (/\ rpc[r] = "load_session" /\ rpc'[r] = "publishing"
         /\ determine_session_event(request[r].msgType) = SESSION_CLOSE) =>
            /\ sessions'[request[r].senderCB] = sessions[request[r].senderCB]
            /\ sessions'[request[r].senderCB] # EmptyDict

\* C13: after a CLOSE notification for a session id has been handled, a
\* later RESUME for that id with no NEW in between is handled like any other
\* RESUME: the CLOSE leaves the record in the store, so the RESUME publishes
\* its inbound message while the record has not expired (unless the store
\* lookup itself fails), and fails only when the record has expired.
C13_ResumeAfterCloseUntilExpiry ==
    /\ [][C13_CloseKeepsRecord]_vars
    /\ [][C13_ResumeAfterClose]_vars

C13_Witness ==
    \E s \in SessionIds :
        \E i, j \in EventsOfSession(s) :
            /\ i < j
            /\ inbound[i].session_event = "close"
            /\ inbound[j].session_event = "resume"
            /\ \A k \in EventsOfSession(s) : ~(i < k /\ k < j)
            /\ Quiescent

\* positions of the messages of NEW notifications of session id s that were
\* published before position j
NewsBefore(s, j) ==
    {i \in EventsOfSession(s) : i < j /\ inbound[i].session_event = "new"}

\* C14: every inbound message published for a RESUME or CLOSE notification
\* of a session carries as to_addr the service code stored by the most
\* recent NEW of that session, as from_addr the subscriber address of the
\* notification itself, as content the notification's ussdString, and the
\* session event that matches the notification's msgType.
C14_ResumeEventFields ==
    \A j \in 1..Len(inbound) :
        LET e == inbound[j]
            msg == inbound[j].transport_metadata
            news == NewsBefore(msg.senderCB, j)
        IN msg.msgType # "0" =>
              /\ e.from_addr = msg.msisdn
              /\ e.content = msg.ussdString
              /\ e.session_event =
                    (IF msg.msgType = "1" THEN "resume" ELSE "close")
              /\ news # {}
              /\ LET last == CHOOSE i \in news : \A k \in news : k <= i
                 IN e.to_addr = inbound[last].transport_metadata.serviceCode

\* two NEWs of one session with different service codes, then a RESUME that
\* carries yet the other code itself
C14_Witness ==
    /\ Len(inbound) = 3
    /\ inbound[1].session_event = "new" /\ inbound[1].to_addr = "909"
    /\ inbound[2].session_event = "new" /\ inbound[2].to_addr = "123"
    /\ inbound[3].session_event = "resume" /\ inbound[3].to_addr = "123"
    /\ inbound[3].transport_metadata.serviceCode = "909"
    /\ \A i \in 1..3 : inbound[i].transport_metadata.senderCB = "s1"

\* the notifications whose handling has ended without a failure
Handled == {r \in ReqIds : rresult[r].type = "value"}

\* C15: a notification whose handling succeeds publishes exactly one inbound
\* message and one whose handling fails (session lookup or session creation
\* fails) publishes none; once no handling is in progress, the number of
\* published inbound messages equals the number of notifications handled
\* successfully.
C15_OneEventPerHandledNotification ==
    /\ \A r \in ReqIds :
          /\ Cardinality(InboundOf(r)) <= 1
          /\ r \in Handled => Cardinality(InboundOf(r)) = 1
          /\ rresult[r].type \in {"KeyError", "StoreError"} =>
                InboundOf(r) = {}
    /\ Quiescent => Len(inbound) = Cardinality(Handled)

\* one notification handled and one failed in its session creation, one
\* message published
C15_Witness ==
    \E r, k \in ReqIds :
        /\ Quiescent
        /\ r \in Handled
        /\ request[k].msgType = "0" /\ rresult[k].type = "StoreError"
        /\ Len(inbound) = 1

(***************************************************************************)
(* Properties of the notification service.                                 *)
(***************************************************************************)
\* the POST of notification r held a SOAP envelope
IsEnvelope(r) == post[r].kind = "envelope"

\* the local name of the first child of the body of the POST of r, None
\* when there is none
FirstChild(r) ==
    IF IsEnvelope(r) /\ post[r].body # <<>> THEN post[r].body[1].name
    ELSE None

\* callback_message_received was not called for r
NotCalled(r) ==
    /\ rpc[r] \in {"idle", "no_callback"}
    /\ request[r] = NoRequest
    /\ rresult[r] = NoResult
    /\ InboundOf(r) = {}

\* the response of r has been written and holds the fault (code, string)
FaultWritten(r, code, string) ==
    /\ response[r].written = 1
    /\ response[r].body = soap_fault(code, string)

\* C16: process dispatches on the local name of the first child of the
\* body: for notifyUssdReception the callback is called with the message of
\* that child, and for a name without handler the fault raised has the code
\* soapenv:Server and a message that names the operation, and the
\* message-received callback is not called.
C16_UnknownOperationServerFault ==
    \A r \in ReqIds :
        /\ FirstChild(r) = "notifyUssdReception" =>
              request[r] = from_element(post[r].body[1])
        /\ FirstChild(r) \notin {None, "notifyUssdReception"} =>
              /\ FaultWritten(r, "soapenv:Server",
                              "No handler for " \o FirstChild(r))
              /\ NotCalled(r)

\* an unknown operation followed by a notifyUssdReception element was
\* answered with the fault
C16_Witness ==
    \E r \in ReqIds :
        /\ FirstChild(r) = "WhatIsThis"
        /\ Len(post[r].body) = 2
        /\ post[r].body[2].name = "notifyUssdReception"
        /\ response[r].body.faultstring = "No handler for WhatIsThis"

\* C17: for an envelope whose body has no child element process raises the
\* fault (soapenv:Client, 'No actionable items'), and neither a handler nor
\* the callback is called.
C17_EmptyBodyClientFault ==
    \A r \in ReqIds :
        IsEnvelope(r) /\ post[r].body = <<>> =>
            /\ FaultWritten(r, "soapenv:Client", "No actionable items")
            /\ NotCalled(r)

\* an envelope with an empty body was answered
C17_Witness ==
    \E r \in ReqIds :
        /\ IsEnvelope(r) /\ post[r].body = <<>>
        /\ response[r].written = 1
        /\ response[r].body.faultcode = "soapenv:Client"

\* the handling of the POST of r has ended: a failure was raised before the
\* callback was called, or the callback has ended
Ended(r) == post[r] # NoPost /\ rpc[r] \in {"no_callback", "done"}

\* parsing, unwrapping and processing of the POST of r all succeeded
Succeeded(r) ==
    /\ FirstChild(r) = "notifyUssdReception"
    /\ rpc[r] = "done"
    /\ rresult[r].type = "value"

\* C18: for every POST, whatever its content and the outcome of processing,
\* the response envelope is written at most once and the request finished
\* with it, and exactly once when the handling has ended; the status is 200
\* with the handler's result as body if and only if parsing, unwrapping and
\* processing all succeeded, and otherwise 500 with a SOAP fault as body.
C18_ExactlyOneResponse ==
    \A r \in ReqIds :
        /\ response[r].written <= 1
        /\ response[r].finished = response[r].written
        /\ Ended(r) <=> response[r].written = 1
        /\ response[r].written = 1 =>
              IF Succeeded(r)
              THEN /\ response[r].code = OK
                   /\ response[r].body = notifyUssdReceptionResponse
              ELSE /\ response[r].code = INTERNAL_SERVER_ERROR
                   /\ response[r].body.tag = "Fault"

\* one POST answered with 200 and one, whose session lookup failed, with 500
C18_Witness ==
    \E r, k \in ReqIds :
        /\ Succeeded(r) /\ response[r].code = OK
        /\ rresult[k].type = "KeyError"
        /\ response[k].written = 1
        /\ response[k].code = INTERNAL_SERVER_ERROR

\* C19: when the body of a POST is not well-formed XML, the fault written
\* back to the carrier carries the client-class fault code soapenv:Client.
C19_InvalidXmlClientFault ==
    \A r \in ReqIds :
        post[r].kind = "invalid" /\ response[r].written = 1 =>
            response[r].body.faultcode = "soapenv:Client"

\* C12: when a RESUME or CLOSE notification arrives over HTTP for a session
\* id without session record, the carrier's request is rejected with the
\* status 400.
C12_MissingSessionStatus400 ==
    \A r \in ReqIds :
        post[r] # NoPost /\ rresult[r].type = "KeyError" =>
            /\ response[r].written = 1
            /\ response[r].code = 400

\* C20 as stated: for a dispatched notifyUssdReception notification the
\* carrier gets the result=0 success body whether or not the emission of the inbound
\* message has completed or succeeded: once the callback has been called
\* the response is written, with status 200 and the result=0 body.
C20_Original ==
    \A r \in ReqIds :
        post[r] # NoPost /\ request[r] # NoRequest =>
            /\ response[r].written = 1
            /\ response[r].code = OK
            /\ response[r].body = notifyUssdReceptionResponse

\* C20 amended: for a dispatched notifyUssdReception notification nothing
\* is written to the carrier while the message-received callback is pending;
\* the result=0 success body is written when the callback, the emission of
\* the inbound message included, has completed, and a 500 SOAP fault when
\* the callback has failed.
C20_ResponseAfterCallback ==
    \A r \in ReqIds :
        post[r] # NoPost /\ request[r] # NoRequest =>
            /\ rpc[r] # "done" => response[r] = NoResponse
            /\ rpc[r] = "done" /\ rresult[r].type = "value" =>
                  /\ InboundOf(r) # {}
                  /\ response[r].code = OK
                  /\ response[r].body = notifyUssdReceptionResponse
            /\ rpc[r] = "done" /\ rresult[r].type # "value" =>
                  /\ InboundOf(r) = {}
                  /\ response[r].code = INTERNAL_SERVER_ERROR
                  /\ response[r].body.tag = "Fault"

\* one notification whose message is being published and has no response
\* yet, and one whose session creation failed and was answered with a fault
C20_Witness ==
    \E r, k \in ReqIds :
        /\ post[r] # NoPost /\ rpc[r] = "publishing"
        /\ InboundOf(r) # {} /\ response[r].written = 0
        /\ post[k] # NoPost /\ rresult[k].type = "StoreError"
        /\ response[k].code = INTERNAL_SERVER_ERROR

\* positions in callbacks of the calls made for notification r
CallsFor(r) == {i \in 1..Len(callbacks) : callbacks[i].req = r}

\* C30: for each notifyUssdReception element processed the message-received
\* callback is called exactly once, with the senderCB of the notification as
\* session identifier, the linkid of the envelope header (None without
\* header or linkid) and the parsed message; the success response is written
\* only after that callback has completed.  For any other POST the callback
\* is not called.
C30_CallbackOncePerNotification ==
    \A r \in ReqIds :
        IF FirstChild(r) = "notifyUssdReception"
        THEN /\ Cardinality(CallsFor(r)) = 1
             /\ \A i \in CallsFor(r) :
                   /\ callbacks[i].session_id = post[r].body[1].senderCB
                   /\ callbacks[i].linkid = post[r].header
                   /\ callbacks[i].message = from_element(post[r].body[1])
             /\ response[r].written = 1 /\ response[r].code = OK =>
                   rpc[r] = "done" /\ rresult[r].type = "value"
        ELSE CallsFor(r) = {}

\* a notification with a linkid in its header was handed to the callback
\* with it and answered with the success body
C30_Witness ==
    \E r \in ReqIds, i \in 1..Len(callbacks) :
        /\ post[r].kind = "envelope" /\ post[r].header = "linkid"
        /\ callbacks[i].req = r
        /\ callbacks[i].linkid = "linkid"
        /\ callbacks[i].message.msisdn = "+27117654321"
        /\ response[r].written = 1
        /\ response[r].body = notifyUssdReceptionResponse

\* the step the callback of notification r waits for can be taken
CanProceed(r) ==
    /\ rpc[r] = "create_session" =>
          ENABLED (CreateSessionDone(r, TRUE) /\ CallbackFired(r))
    /\ rpc[r] = "load_session" =>
          ENABLED (LoadSessionDone(r, TRUE) /\ CallbackFired(r))
    /\ rpc[r] = "publishing" =>
          ENABLED (PublishMessageDone(r) /\ CallbackFired(r))

\* what handling notification r has done so far is what the handler does
\* for its message, connection or not
HandledAsUsual(r) ==
    /\ rpc[r] = "publishing" \/ rresult[r].type = "value" =>
          Cardinality(InboundOf(r)) = 1
    /\ rpc[r] = "done" => response[r].written = 1
    /\ rresult[r].type \in {"pending", "value", "KeyError", "StoreError"}

\* C21: when the carrier's connection is lost after the dispatch of a
\* notification has started, the loss itself changes nothing but the
\* connection, the pending session store operation and the emission of the
\* inbound message can still complete and do what they do with the
\* connection open; only the response goes to a closed connection.
C21_DisconnectCancelsNothing ==
    /\ [](\A r \in ReqIds : lost[r] => CanProceed(r) /\ HandledAsUsual(r))
    /\ [][lost' # lost =>
            UNCHANGED <<varsIn, post, response, callbacks>>]_vars

\* a NEW notification whose connection was lost while it was handled: its
\* session was created and its message published
C21_Witness ==
    \E r \in ReqIds :
        /\ lost[r]
        /\ request[r].msgType = "0"
        /\ rresult[r].type = "value"
        /\ InboundOf(r) # {}
        /\ sessions[request[r].senderCB] =
              [ussd_code |-> request[r].serviceCode]

\* the step taken belongs to the handling of a RESUME or CLOSE notification:
\* its arrival, the completion of its lookup or of its publish
ResumeOrCloseStep(r) ==
    /\ rpc'[r] # rpc[r]
    /\ rpc'[r] # "idle"
    /\ request'[r] # NoRequest
    /\ determine_session_event(request'[r].msgType) # SESSION_NEW

\* C22: handling a RESUME or CLOSE notification leaves the session store as
\* it is: no step of it modifies the fields of a record, starts the time to
\* live of a record anew, or deletes a record (a CLOSE included).
C22_ResumeCloseLeaveStore ==
    [][\A r \in ReqIds :
          ResumeOrCloseStep(r) => UNCHANGED <<sessions, expires>>]_vars

\* a NEW and then a CLOSE of the same session id were handled; the record
\* is the one the NEW wrote and its time to live was started once
C22_Witness ==
    \E i, j \in 1..Len(inbound) :
        /\ i < j
        /\ inbound[i].session_event = "new"
        /\ inbound[j].session_event = "close"
        /\ inbound[i].transport_metadata.senderCB =
              inbound[j].transport_metadata.senderCB
        /\ Quiescent
        /\ sessions[inbound[i].transport_metadata.senderCB] =
              [ussd_code |-> inbound[i].to_addr]
        /\ expires[inbound[i].transport_metadata.senderCB] = 1

(***************************************************************************)
(* Properties of the client's results on the outbound path.                *)
(***************************************************************************)
\* C27: when the carrier answers the send call with a success status and a
\* body without result element, the call succeeds with the empty string as
\* request identifier, and the transport publishes an ack carrying it and no
\* nack.
C27_NoResultElementAcked ==
    \A m \in MsgIds :
        (/\ outcome[m].type = "value"
         /\ outcome[m].value = ExtractRequestIdentifier(NoResultBody)) =>
            /\ outcome[m].value = ""
            /\ Nacks(m) = 0
            /\ Acks(m) = 1
            /\ \A i \in EventsOf(m, "ack") : events[i].sent_message_id = ""
            /\ pc[m] = "done" => result[m].type = "value"

\* a send answered without result element was acknowledged
C27_Witness ==
    \E m \in MsgIds :
        /\ pc[m] = "done"
        /\ outcome[m].type = "value" /\ outcome[m].value = ""
        /\ \E i \in EventsOf(m, "ack") : events[i].sent_message_id = ""

\* positions in calls of the send calls made for message m
CallsOf(m) == {i \in 1..Len(calls) : calls[i].message_id = m}

\* C28: when the transport metadata of an outbound message carries a linkid
\* the send call of the client is made with that linkid, and when it
\* carries none the send call is made with the linkid None.
C28_StoredLinkidPassed ==
    \A m \in MsgIds :
        /\ pc[m] # "idle" /\ message[m].linkid # None =>
              /\ CallsOf(m) # {}
              /\ \A i \in CallsOf(m) : calls[i].linkid = message[m].linkid
        /\ pc[m] # "idle" /\ message[m].linkid = None =>
              \A i \in CallsOf(m) : calls[i].linkid = None

\* C31: a send call carries msgType '2' and ussdOpType '3' exactly when the
\* session event of its message is 'close', msgType '1' and ussdOpType '1'
\* for every other session event, and never msgType '0'.
C31_CloseSendsTwoThree ==
    \A i \in 1..Len(calls) :
        LET session_event == message[calls[i].message_id].session_event
        IN /\ (calls[i].msgType = "2" /\ calls[i].ussdOpType = "3")
                  <=> session_event = "close"
           /\ session_event # "close"
                  => calls[i].msgType = "1" /\ calls[i].ussdOpType = "1"
           /\ calls[i].msgType # "0"

\* a message that opens a session and one that closes it have been sent
C31_Witness ==
    \E i, j \in 1..Len(calls) :
        /\ message[calls[i].message_id].session_event = "new"
        /\ calls[i].msgType = "1"
        /\ message[calls[j].message_id].session_event = "close"
        /\ calls[j].msgType = "2"
        /\ calls[j].ussdOpType = "3"

(***************************************************************************)
(* Properties of the client.                                               *)
(***************************************************************************)
\* the header has a field of this name
HasField(header, tag) == \E j \in 1..Len(header) : header[j].tag = tag

\* the text of the first field of this name
FieldText(header, tag) ==
    header[CHOOSE j \in 1..Len(header) :
               /\ header[j].tag = tag
               /\ \A k \in 1..(j - 1) : header[k].tag # tag].text

\* C23: in the header of every call, OA is there exactly when a subscription
\* address was given and linkid exactly when a linkid was given, no field is
\* an empty element, and spId, spPassword, serviceId and timeStamp are always
\* there.
C23_OptionalFieldsOmitted ==
    /\ Len(requests) = Len(invoked)
    /\ \A i \in 1..Len(requests) :
           LET header == requests[i].header
               call == invoked[i]
           IN /\ HasField(header, "OA")
                     <=> call.service_subscription_address # None
              /\ HasField(header, "linkid") <=> call.linkid # None
              /\ \A j \in 1..Len(header) : header[j].text # ""
              /\ \A tag \in {"spId", "spPassword", "serviceId", "timeStamp"} :
                     HasField(header, tag)

\* all four combinations of given and missing arguments have been sent
C23_Witness ==
    /\ \E i \in 1..Len(requests) :
           /\ invoked[i].service_subscription_address = None
           /\ ~HasField(requests[i].header, "OA")
           /\ ~HasField(requests[i].header, "linkid")
    /\ \E i \in 1..Len(requests) :
           /\ invoked[i].service_subscription_address # None
           /\ invoked[i].linkid = None
           /\ HasField(requests[i].header, "OA")
           /\ ~HasField(requests[i].header, "linkid")
    /\ \E i \in 1..Len(requests) :
           /\ invoked[i].linkid # None
           /\ FieldText(requests[i].header, "OA") = "+27117654321"
           /\ FieldText(requests[i].header, "linkid") = "linkid"

\* C24: in every header the timestamp sent is the one hashed into the
\* password, it is the reading of the clock at that call, one reading is made
\* per call, and calls at different times carry different passwords.
C24_TimestampHashedIsSent ==
    /\ Len(requests) = Len(invoked)
    /\ reads = Len(invoked)
    /\ \A i \in 1..Len(requests) :
           LET header == requests[i].header
           IN /\ FieldText(header, "timeStamp")
                     = format_timestamp(invoked[i].at)
              /\ FieldText(header, "spPassword")
                     = make_password(service_provider_id,
                                     service_provider_password,
                                     FieldText(header, "timeStamp"))
    /\ \A i, j \in 1..Len(requests) :
           invoked[i].at # invoked[j].at
               => FieldText(requests[i].header, "spPassword")
                      # FieldText(requests[j].header, "spPassword")

\* two calls of the same method at different times
C24_Witness ==
    \E i, j \in 1..Len(requests) :
        /\ i < j
        /\ invoked[i].method = invoked[j].method
        /\ invoked[i].at < invoked[j].at
        /\ FieldText(requests[j].header, "timeStamp")
               = format_timestamp(clock)
        /\ FieldText(requests[i].header, "spPassword")
               # FieldText(requests[j].header, "spPassword")

\* the uri a method sends to
UriOf(method) ==
    IF method \in {"start_ussd_notification", "stop_ussd_notification"}
    THEN notification_uri
    ELSE send_uri

\* C25: the i-th call has issued the i-th request and no other, to the
\* notification uri for start and stop and to the send uri for send and abort,
\* with a header of the time of that call; repeated calls are not merged.
C25_OneRequestPerCall ==
    /\ Len(requests) = Len(invoked)
    /\ \A i \in 1..Len(requests) :
           /\ requests[i].uri = UriOf(invoked[i].method)
           /\ FieldText(requests[i].header, "timeStamp")
                  = format_timestamp(invoked[i].at)

\* the same call made twice, at two times, has sent two requests
C25_Witness ==
    \E i, j \in 1..Len(requests) :
        /\ i < j
        /\ invoked[i].method = "start_ussd_notification"
        /\ invoked[j].method = "start_ussd_notification"
        /\ requests[i].body = requests[j].body
        /\ requests[i].uri = "notification"
        /\ requests[i].header # requests[j].header
        /\ \E k \in 1..Len(requests) : requests[k].uri = "send"

\* the correlator a start or stop request names
BodyCorrelator(body) ==
    IF body.tag = "startUSSDNotification"
    THEN body.reference.correlator
    ELSE body.correlator

IsNotificationRequest(i) ==
    requests[i].body.tag \in {"startUSSDNotification", "stopUSSDNotification"}

\* C26: once drawn the correlator of the client never changes, and every
\* start and stop request names it.
C26_OneCorrelator ==
    /\ [](\A i \in 1..Len(requests) :
              IsNotificationRequest(i)
                  => BodyCorrelator(requests[i].body) = correlator)
    /\ [][correlator # None => correlator' = correlator]_vars

\* a stop sent after a start and a start sent after a stop
C26_Witness ==
    \E i, j, k \in 1..Len(requests) :
        /\ i < j
        /\ j < k
        /\ requests[i].body.tag = "startUSSDNotification"
        /\ requests[j].body.tag = "stopUSSDNotification"
        /\ requests[k].body.tag = "startUSSDNotification"
        /\ BodyCorrelator(requests[j].body) = correlator


(***************************************************************************)
(* Properties of setup_transport and teardown_transport.                   *)
(***************************************************************************)
\* the number of calls of a method of the client
RECURSIVE CountCalls(_, _)
CountCalls(method, calls_made) ==
    IF calls_made = <<>>
    THEN 0
    ELSE (IF Head(calls_made).method = method THEN 1 ELSE 0)
             + CountCalls(method, Tail(calls_made))

Starts == CountCalls("start_ussd_notification", invoked)
Stops == CountCalls("stop_ussd_notification", invoked)

\* setup_transport has got past its call of start_ussd_notification
PastStart ==
    tpc \in {"starting", "running", "failed_at_start", "losing", "lose_failed",
             "stopping", "stopped", "stop_failed"}

\* teardown_transport has got past its call of stop_ussd_notification
PastStop == tpc \in {"stopping", "stopped", "stop_failed"}

\* C29: start_ussd_notification has been called once when setup_transport
\* has got past its place of the call and start_notifications is set, and not
\* at all otherwise; stop_ussd_notification has been called once when
\* teardown_transport has got past its place of the call and the setting is
\* set, and not at all otherwise.
C29_RegistrationFollowsSetting ==
    /\ Starts = (IF start_notifications /\ PastStart THEN 1 ELSE 0)
    /\ Stops = (IF start_notifications /\ PastStop THEN 1 ELSE 0)

\* a transport with the setting on has registered, sent, and deregistered
C29_Witness ==
    /\ start_notifications
    /\ tpc = "stopped"
    /\ Len(invoked) = 3
    /\ invoked[1].method = "start_ussd_notification"
    /\ invoked[2].method = "send_ussd"
    /\ invoked[3].method = "stop_ussd_notification"


(***************************************************************************)
(* Properties of the inbound path for every msgType.                       *)
(***************************************************************************)
\* the session event the protocol gives a msgType
ExpectedSessionEvent(msg_type) ==
    CASE msg_type = "0" -> "new"
      [] msg_type = "1" -> "resume"
      [] msg_type \in {"2", "3", "", None} -> "close"

\* a step that writes the record of session s
WritesRecord(s) == sessions'[s] # sessions[s] /\ sessions'[s] # EmptyDict

\* a step that publishes an event
Publishes == Len(inbound') = Len(inbound) + 1

\* C32: an event carries NEW for msgType '0', RESUME for '1' and CLOSE for
\* every other msgType, a missing one included; a session record is written
\* only by a notification of msgType '0', and an event of any other msgType is
\* published only when the record of its session exists.
C32_OnlyZeroCreates ==
    /\ [](\A i \in 1..Len(inbound) :
              inbound[i].session_event
                  = ExpectedSessionEvent(request[inbound[i].req].msgType))
    /\ [][\A s \in SessionIds :
              WritesRecord(s) =>
                  \E r \in ReqIds :
                      /\ request[r].msgType = "0"
                      /\ request[r].senderCB = s
                      /\ rpc[r] = "create_session"
                      /\ rpc'[r] = "publishing"]_vars
    /\ [][Publishes =>
              LET event == inbound'[Len(inbound')]
                  msg == request[event.req]
              IN msg.msgType # "0" =>
                     /\ sessions[msg.senderCB] # EmptyDict
                     /\ sessions' = sessions]_vars

\* a notification with a msgType out of range has closed the session that a
\* notification of msgType '0' had created
C32_Witness ==
    /\ Len(inbound) = 2
    /\ request[inbound[1].req].msgType = "0"
    /\ inbound[1].session_event = "new"
    /\ request[inbound[2].req].msgType = "3"
    /\ inbound[2].session_event = "close"
    /\ request[inbound[2].req].senderCB = request[inbound[1].req].senderCB
    /\ inbound[2].to_addr = "909"


(***************************************************************************)
(* Properties of notifications for different sessions.                     *)
(***************************************************************************)
\* a step of the handling of notification r
StepOf(r) == rpc'[r] # rpc[r]

\* C33: a step of the handling of a notification for session A leaves the
\* record and the expiry of every other session as they were, and the to_addr
\* of the event it publishes is the serviceCode of the notification for a NEW
\* and the ussd_code of A's own record otherwise.
C33_OtherSessionsUntouched ==
    /\ [][\A r \in ReqIds :
              StepOf(r) =>
                  \A s \in SessionIds \ {request'[r].senderCB} :
                      /\ sessions'[s] = sessions[s]
                      /\ expires'[s] = expires[s]]_vars
    /\ [][Publishes =>
              LET event == inbound'[Len(inbound')]
                  msg == request[event.req]
              IN event.to_addr =
                     IF msg.msgType = "0"
                     THEN msg.serviceCode
                     ELSE sessions[msg.senderCB].ussd_code]_vars

\* two notifications for two sessions, handled at the same time, with the
\* event of the second published first
C33_Witness ==
    /\ Len(inbound) = 2
    /\ inbound[1].req = 2
    /\ inbound[2].req = 1
    /\ request[1].senderCB = "s1"
    /\ request[2].senderCB = "s2"
    /\ request[1].msgType = "0"
    /\ request[2].msgType = "0"
    /\ inbound[1].to_addr = "123"
    /\ inbound[2].to_addr = "909"
    /\ sessions["s1"] = [ussd_code |-> "909"]
    /\ sessions["s2"] = [ussd_code |-> "123"]


(***************************************************************************)
(* Properties of notifications racing on one session.                      *)
(***************************************************************************)
\* the service codes of the NEW notifications received for session s
NewCodesOf(s) ==
    {request[r].serviceCode :
        r \in {k \in ReqIds : /\ rpc[k] # "idle"
                              /\ request[k].msgType = "0"
                              /\ request[k].senderCB = s}}

\* the events published for notification r
EventsFor(r) == {i \in 1..Len(inbound) : inbound[i].req = r}

\* C34: a RESUME handled while a NEW of the same session is handled has
\* either failed and published nothing, or published an event whose to_addr is
\* the serviceCode of a NEW of that session; no event has a missing to_addr.
C34_ResumeSeesWholeCodeOrFails ==
    /\ \A i \in 1..Len(inbound) :
           /\ inbound[i].to_addr \in ServiceCodes
           /\ inbound[i].session_event = "resume" =>
                  inbound[i].to_addr
                      \in NewCodesOf(request[inbound[i].req].senderCB)
    /\ \A r \in ReqIds :
           IsFailure(rresult[r]) => EventsFor(r) = {}

\* the RESUME has read the record between the two writes of the NEW, found no
\* code in it and failed
C34_Witness ==
    /\ request[1].msgType = "0"
    /\ request[2].msgType = "1"
    /\ rpc[1] = "saved_created_at"
    /\ sessions["s1"] = [created_at |-> "now"]
    /\ rresult[2] = [type |-> "KeyError"]
    /\ EventsFor(2) = {}


(***************************************************************************)
(* Properties of ReconnectingClientService.                                *)
(***************************************************************************)
\* the delayed calls that wait to run and the connects under way
PendingTimers == {i \in 1..Len(timers) : timers[i] = "pending"}
PendingConnects == {j \in 1..Len(connects) : connects[j] = "pending"}

\* steps of the service
StopStep == running /\ ~running'
ConnectFailedStep ==
    \E j \in 1..Len(connects) :
        connects[j] = "pending" /\ connects'[j] = "failed"
ConnectedStep ==
    \E j \in 1..Len(connects) :
        connects[j] = "pending" /\ connects'[j] = "connected"
LostStep ==
    \E j \in 1..Len(connects) :
        connects[j] = "connected" /\ connects'[j] = "lost"

\* the step has scheduled one delayed call, which waits to run
ScheduledOne ==
    /\ Len(timers') = Len(timers) + 1
    /\ timers'[Len(timers')] = "pending"
    /\ delayedRetryDeferred' = Len(timers')
    /\ \A i \in 1..Len(timers) : timers'[i] = timers[i]

\* retry() is within the limit when called now
WithinMaxRetries == maxRetries = NoLimit \/ retries < maxRetries

\* C35: stopService cancels the delayed call that waits and the connect
\* under way and clears both handles, in whatever state it is called, and
\* while the service is stopped no connect is started and no delayed call is
\* scheduled.
C35_StopCancelsEverything ==
    /\ [][StopStep =>
              /\ delayedRetryDeferred' = NoCall
              /\ connectingDeferred' = NoCall
              /\ \A i \in 1..Len(timers') : timers'[i] # "pending"
              /\ \A j \in 1..Len(connects') : connects'[j] # "pending"]_vars
    /\ [][~running /\ ~running' =>
              /\ Len(connects') = Len(connects)
              /\ Len(timers') = Len(timers)]_vars

\* C36: while the service runs within maxRetries, a connect that fails has
\* clientConnectionFailed called and a new delayed call scheduled.
C36_FailedConnectRetried ==
    [][ConnectFailedStep /\ running /\ WithinMaxRetries =>
           /\ \E k \in 1..Len(trace') : trace'[k] = "clientConnectionFailed"
           /\ ScheduledOne]_vars

C38_MaxRetriesInARow ==
    /\ [](maxRetries # NoLimit => inARow <= maxRetries)
    /\ [](inARow <= retries)
    /\ [][ConnectedStep =>
              retries' = 0 /\ delay' = initialDelay /\ inARow' = 0]_vars

\* the limit was reached and an attempt abandoned, after a connection had
\* reset the count before
C38_Witness ==
    /\ maxRetries = 1
    /\ inARow = 1
    /\ retries = 2
    /\ \E j \in 1..Len(connects) : connects[j] \in {"connected", "lost"}
    /\ trace[Len(trace)] = "abandon"

\* C39: at most one attempt is outstanding at any time, delayed calls that
\* wait and connects under way taken together.
C39_AtMostOneOutstanding ==
    Cardinality(PendingTimers) + Cardinality(PendingConnects) <= 1


(***************************************************************************)
(* Properties of MtechUssdTransport.                                       *)
(***************************************************************************)
\* a step that handles a request
MtechRequestStep ==
    /\ Len(mlog') > Len(mlog)
    /\ mlog'[Len(mlog) + 1].op = "request"

\* the request the step handles and what the step has done for it
StepBody == mlog'[Len(mlog) + 1].body
StepMsgid == mlog'[Len(mlog) + 1].msgid
StepDid == SubSeq(mlog', Len(mlog) + 2, Len(mlog'))

\* C40: a request that opens no session and whose session id has no stored
\* from_addr is answered with 400, publishes nothing and leaves the store as
\* it was; a request that opens a session saves the session and then
\* publishes the event; a status request publishes nothing.
C40_MissingSessionRejected ==
    [][MtechRequestStep /\ StepBody.xml = "ok" =>
           IF StepBody.status # None
           THEN /\ \A k \in 1..Len(StepDid) : StepDid[k].op # "publish"
                /\ msessions' = msessions
           ELSE IF IsNewSession(StepBody)
           THEN /\ Len(StepDid) = 2
                /\ StepDid[1].op = "save"
                /\ StepDid[1].session_id = StepBody.session_id
                /\ StepDid[2].op = "publish"
                /\ StepDid[2].session_event = "new"
                /\ msessions'[StepBody.session_id] =
                       [from_addr |-> StepBody.mobile_number,
                        to_addr |-> StepBody.gate]
           ELSE "from_addr" \notin DOMAIN msessions[StepBody.session_id] =>
                    /\ StepDid = <<FinishEntry(StepMsgid, 400)>>
                    /\ msessions' = msessions]_vars

\* a session was opened, a request of another session without record was
\* refused, and a status request was answered
C40_Witness ==
    /\ Len(mlog) = 7
    /\ mlog[2].op = "save"
    /\ mlog[3].op = "publish"
    /\ mlog[4].op = "request"
    /\ mlog[4].body.xml = "ok"
    /\ mlog[4].body.status = None
    /\ mlog[4].body.page_id = "0"
    /\ mlog[4].body.mobile_number = None
    /\ mlog[4].body.session_id # mlog[2].session_id
    /\ mlog[5] = FinishEntry(2, 400)
    /\ mlog[6].op = "request"
    /\ mlog[6].body.xml = "ok"
    /\ mlog[6].body.status = "cancel"
    /\ mlog[7] = FinishEntry(3, 200)
    /\ msessions[mlog[4].body.session_id] = EmptyDict

=============================================================================
